---- MODULE Spec2Model ----
(***************************************************************************)
(* A model of redrip, a command-line client that synchronises Redash       *)
(* queries with a local directory of <id>.sql files.                       *)
(*                                                                         *)
(* Strings are TLA+ strings; Len, SubSeq and \o act on them as on          *)
(* sequences of characters, so the Go string functions the program uses    *)
(* (strings.TrimSpace, HasPrefix, HasSuffix, SplitN, Join, strconv.Atoi)   *)
(* are computed character by character as the library computes them.       *)
(***************************************************************************)
EXTENDS Integers, Sequences, FiniteSets, TLC

VARIABLES
    disk,            \* the filesystem: path |-> node, for the paths that exist
    environ,         \* the process environment: HOME and REDRIP_PROFILE
    server,          \* the remote Redash service the client talks to
    CurrentProfile,  \* redash.CurrentProfile, the package-level variable
    call,            \* the operation that ran last, its arguments and results
    compares,        \* the calls of CompareQueryWithLocal made by that operation
    requests         \* the HTTP requests sent by that operation, in order

vars == <<disk, environ, server, CurrentProfile, call, compares, requests>>

----------------------------------------------------------------------------
(* Go's strings package, on TLA+ strings.                                  *)

Ch(s, i) == SubSeq(s, i, i)

\* unicode.IsSpace restricted to the ASCII characters the model uses
IsSpace(c) == c \in {" ", "\t", "\n", "\r"}

HasPrefix(s, p) == Len(s) >= Len(p) /\ SubSeq(s, 1, Len(p)) = p

HasSuffix(s, p) == Len(s) >= Len(p) /\ SubSeq(s, Len(s) - Len(p) + 1, Len(s)) = p

TrimSuffix(s, p) == IF HasSuffix(s, p) THEN SubSeq(s, 1, Len(s) - Len(p)) ELSE s

RECURSIVE TrimLeft(_)
TrimLeft(s) ==
    IF Len(s) > 0 /\ IsSpace(Ch(s, 1)) THEN TrimLeft(SubSeq(s, 2, Len(s))) ELSE s

RECURSIVE TrimRight(_)
TrimRight(s) ==
    IF Len(s) > 0 /\ IsSpace(Ch(s, Len(s))) THEN TrimRight(SubSeq(s, 1, Len(s) - 1)) ELSE s

TrimSpace(s) == TrimRight(TrimLeft(s))

\* strings.Index(s, c) for a one-character c: the first position of c, 0 if none
RECURSIVE IndexFrom(_, _, _)
IndexFrom(s, c, i) ==
    IF i > Len(s) THEN 0
    ELSE IF Ch(s, i) = c THEN i
    ELSE IndexFrom(s, c, i + 1)

Index(s, c) == IndexFrom(s, c, 1)

\* the two parts around the last sep of s: the mutant of SplitN2
RECURSIVE LastIndexFrom(_, _, _)
LastIndexFrom(s, c, i) ==
    IF i = 0 THEN 0
    ELSE IF SubSeq(s, i, i) = c THEN i
    ELSE LastIndexFrom(s, c, i - 1)

SplitAtLast(s, sep) ==
    IF LastIndexFrom(s, sep, Len(s)) = 0 THEN <<s>>
    ELSE <<SubSeq(s, 1, LastIndexFrom(s, sep, Len(s)) - 1),
           SubSeq(s, LastIndexFrom(s, sep, Len(s)) + 1, Len(s))>>

\* strings.SplitN(s, sep, 2) for a one-character sep: at most two parts
SplitN2(s, sep) ==
    LET i == Index(s, sep)
    IN  IF i = 0 THEN <<s>>
        ELSE <<SubSeq(s, 1, i - 1), SubSeq(s, i + 1, Len(s))>>

\* strings.Join(elems, sep)
RECURSIVE Join(_, _)
Join(elems, sep) ==
    IF Len(elems) = 0 THEN ""
    ELSE IF Len(elems) = 1 THEN elems[1]
    ELSE elems[1] \o sep \o Join(Tail(elems), sep)

\* bufio.ScanLines over the whole text: the lines without their terminators;
\* a final line with no newline is a line, a trailing newline adds none, and
\* one trailing carriage return is dropped from each line
DropCR(s) == IF HasSuffix(s, "\r") THEN SubSeq(s, 1, Len(s) - 1) ELSE s

RECURSIVE ScanLines(_)
ScanLines(text) ==
    IF Len(text) = 0 THEN <<>>
    ELSE LET i == Index(text, "\n")
         IN  IF i = 0 THEN <<DropCR(text)>>
             ELSE <<DropCR(SubSeq(text, 1, i - 1))>> \o ScanLines(SubSeq(text, i + 1, Len(text)))

\* strings.Contains(s, sub)
RECURSIVE ContainsFrom(_, _, _)
ContainsFrom(s, sub, i) ==
    IF i + Len(sub) - 1 > Len(s) THEN FALSE
    ELSE IF SubSeq(s, i, i + Len(sub) - 1) = sub THEN TRUE
    ELSE ContainsFrom(s, sub, i + 1)

Contains(s, sub) == ContainsFrom(s, sub, 1)

----------------------------------------------------------------------------
(* The filesystem, as package file and package os see it.                  *)
(*                                                                         *)
(* A node is [kind, content].  kind is "file" (a readable regular file),   *)
(* "noperm" (a regular file the process may not open), "dir", "linkdir"    *)
(* (a symbolic link to a directory: a directory to os.Stat, which follows  *)
(* links, and not one to a directory entry, which does not) or "dangling"  *)
(* (a symbolic link to nothing: listed in its directory, absent to         *)
(* os.Stat).  A path outside DOMAIN d does not exist.                      *)

NodeKinds == {"file", "noperm", "dir", "linkdir", "dangling"}

FileNode(text) == [kind |-> "file", content |-> text]

OtherNode(k) == [kind |-> k, content |-> ""]

\* os.Stat(path) returns no error
StatOK(d, path) == path \in DOMAIN d /\ d[path].kind # "dangling"

\* file.Exists
Exists(d, path) == StatOK(d, path)

\* file.IsDirectory without the test of the node's type: the mutant of IsDirectory
IsDirectoryAnyNode(d, path) == StatOK(d, path)

\* file.IsDirectory
IsDirectory(d, path) == StatOK(d, path) /\ d[path].kind \in {"dir", "linkdir"}

\* file.IsFile
IsFile(d, path) == StatOK(d, path) /\ d[path].kind \notin {"dir", "linkdir"}

\* os.ReadFile / os.Open followed by a full read: succeeds on a readable file
ReadOK(d, path) == path \in DOMAIN d /\ d[path].kind = "file"

ReadErr(d, path) ==
    IF path \notin DOMAIN d \/ d[path].kind = "dangling"
        THEN "open " \o path \o ": no such file or directory"
    ELSE IF d[path].kind = "noperm" THEN "open " \o path \o ": permission denied"
    ELSE "read " \o path \o ": is a directory"

\* os.WriteFile(path, data, perm): creates the file or replaces its content;
\* fails on a directory and on a file the process may not open
WriteOK(d, path) == path \notin DOMAIN d \/ d[path].kind \in {"file", "dangling"}

WriteErr(d, path) ==
    IF d[path].kind = "noperm" THEN "open " \o path \o ": permission denied"
    ELSE "open " \o path \o ": is a directory"

Put(d, path, node) == [p \in DOMAIN d \cup {path} |-> IF p = path THEN node ELSE d[p]]

\* a write of the data without the white space around it: a mutant of WriteFile
WriteFileTrimmed(d, path, data) ==
    IF WriteOK(d, path) THEN [err |-> "", disk |-> Put(d, path, FileNode(TrimSpace(data)))]
    ELSE [err |-> WriteErr(d, path), disk |-> d]

\* a write whose failure is not reported: the mutant of WriteFile
WriteFileErrorDropped(d, path, data) ==
    IF WriteOK(d, path) THEN [err |-> "", disk |-> Put(d, path, FileNode(data))]
    ELSE [err |-> "", disk |-> d]

\* file.WriteFile: the parent directory of every path the model writes exists
\* or is created by EnsureDirectory, so only the write itself can fail
WriteFile(d, path, data) ==
    IF WriteOK(d, path) THEN [err |-> "", disk |-> Put(d, path, FileNode(data))]
    ELSE [err |-> WriteErr(d, path), disk |-> d]

\* filepath.Join(dir, name) for a clean dir and a plain file name
PathJoin(dir, name) == IF dir = "." THEN name ELSE dir \o "/" \o name

----------------------------------------------------------------------------
(* Configuration: package redash, client.go.                               *)

DefaultConfigContent ==
    "# Default profile (used when no profile is specified)\n" \o
    "[default]\n" \o
    "# Redash API URL (required)\n" \o
    "redash_url = \n" \o
    "# Redash API Key (required)\n" \o
    "api_key = \n" \o
    "# Directory to save SQL files (optional, defaults to current directory)\n" \o
    "sql_dir = \n" \o
    "\n" \o
    "# Example staging profile\n" \o
    "# [profile stg]\n" \o
    "# redash_url = https://redash-staging.example.com/api\n" \o
    "# api_key = your_staging_api_key\n" \o
    "# sql_dir = /path/to/staging/sql/dir\n" \o
    "\n" \o
    "# Example production profile\n" \o
    "# [profile prd]\n" \o
    "# redash_url = https://redash-production.example.com/api\n" \o
    "# api_key = your_production_api_key\n" \o
    "# sql_dir = /path/to/production/sql/dir\n"

\* ProfileConfig{}: the zero value
ZeroProfile == [RedashURL |-> "", APIKey |-> "", SQLDir |-> ""]

\* reading a Go map: the zero value for a missing key
Lookup(profiles, name) == IF name \in DOMAIN profiles THEN profiles[name] ELSE ZeroProfile

\* writing a Go map
Store(profiles, name, pc) ==
    [n \in DOMAIN profiles \cup {name} |-> IF n = name THEN pc ELSE profiles[n]]

EmptyProfiles == [n \in {} |-> ZeroProfile]

\* EnsureConfigFile that writes the default content whatever is there: the
\* mutant of EnsureConfigFile
EnsureConfigFileOverwrite(d, configPath) ==
    LET Written(w) ==
            IF w.err # "" THEN [err |-> "failed to create config file: " \o w.err, disk |-> d]
            ELSE [err |-> "", disk |-> w.disk]
    IN  Written(WriteFile(d, configPath, DefaultConfigContent))

\* EnsureConfigFile: writes the default content only when the path does not exist
EnsureConfigFile(d, configPath) ==
    LET Written(w) ==
            IF w.err # "" THEN [err |-> "failed to create config file: " \o w.err, disk |-> d]
            ELSE [err |-> "", disk |-> w.disk]
    IN  IF ~Exists(d, configPath) THEN Written(WriteFile(d, configPath, DefaultConfigContent))
        ELSE [err |-> "", disk |-> d]

\* one iteration of LoadConfig's scanner loop; st is [profiles, current]
SetField(pc, key, value) ==
    IF key = "redash_url" THEN [pc EXCEPT !.RedashURL = value]
    ELSE IF key = "api_key" THEN [pc EXCEPT !.APIKey = value]
    ELSE IF key = "sql_dir" THEN [pc EXCEPT !.SQLDir = value]
    ELSE pc

\* the loop body that stores the value as the line has it, white space
\* included: a mutant of LoadConfigLine
LoadConfigLineValueUntrimmed(st, line) ==
    IF HasPrefix(TrimSpace(line), "#") \/ TrimSpace(line) = "" THEN st
    ELSE IF HasPrefix(line, "[") /\ HasSuffix(line, "]")
        THEN LET inner == TrimSpace(SubSeq(line, 2, Len(line) - 1))
                 named == HasPrefix(inner, "profile ")
                 profileName == IF named THEN TrimSpace(SubSeq(inner, 9, Len(inner))) ELSE inner
             IN  IF ~named /\ inner # "default" THEN st
                 ELSE [profiles |-> IF profileName \in DOMAIN st.profiles THEN st.profiles
                                    ELSE Store(st.profiles, profileName, ZeroProfile),
                       current |-> profileName]
    ELSE LET parts == SplitN2(line, "=")
         IN  IF Len(parts) # 2 THEN st
             ELSE [profiles |-> Store(st.profiles, st.current,
                                      SetField(Lookup(st.profiles, st.current),
                                               TrimSpace(parts[1]), parts[2])),
                   current |-> st.current]

\* the loop body that takes any bracketed name for a section: a mutant of
\* LoadConfigLine
LoadConfigLineAnyHeader(st, line) ==
    IF HasPrefix(TrimSpace(line), "#") \/ TrimSpace(line) = "" THEN st
    ELSE IF HasPrefix(line, "[") /\ HasSuffix(line, "]")
        THEN LET inner == TrimSpace(SubSeq(line, 2, Len(line) - 1))
                 named == HasPrefix(inner, "profile ")
                 profileName == IF named THEN TrimSpace(SubSeq(inner, 9, Len(inner))) ELSE inner
             IN  [profiles |-> IF profileName \in DOMAIN st.profiles THEN st.profiles
                               ELSE Store(st.profiles, profileName, ZeroProfile),
                  current |-> profileName]
    ELSE LET parts == SplitN2(line, "=")
         IN  IF Len(parts) # 2 THEN st
             ELSE [profiles |-> Store(st.profiles, st.current,
                                      SetField(Lookup(st.profiles, st.current),
                                               TrimSpace(parts[1]), TrimSpace(parts[2]))),
                   current |-> st.current]

LoadConfigLine(st, line) ==
    IF HasPrefix(TrimSpace(line), "#") \/ TrimSpace(line) = "" THEN st
    ELSE IF HasPrefix(line, "[") /\ HasSuffix(line, "]")
        THEN LET inner == TrimSpace(SubSeq(line, 2, Len(line) - 1))
                 named == HasPrefix(inner, "profile ")
                 profileName == IF named THEN TrimSpace(SubSeq(inner, 9, Len(inner))) ELSE inner
             IN  IF ~named /\ inner # "default" THEN st
                 ELSE [profiles |-> IF profileName \in DOMAIN st.profiles THEN st.profiles
                                    ELSE Store(st.profiles, profileName, ZeroProfile),
                       current |-> profileName]
    ELSE LET parts == SplitN2(line, "=")
         IN  IF Len(parts) # 2 THEN st
             ELSE LET key == TrimSpace(parts[1])
                      value == TrimSpace(parts[2])
                  IN  [profiles |-> Store(st.profiles, st.current,
                                          SetField(Lookup(st.profiles, st.current), key, value)),
                       current |-> st.current]

RECURSIVE LoadConfigLines(_, _)
LoadConfigLines(st, lines) ==
    IF Len(lines) = 0 THEN st
    ELSE LoadConfigLines(LoadConfigLine(st, Head(lines)), Tail(lines))

\* the parse of a config text that leaves the profiles as the lines made
\* them: the mutant of ParseConfig
ParseConfigAsWritten(text) ==
    LoadConfigLines([profiles |-> EmptyProfiles, current |-> "default"],
                    ScanLines(text)).profiles

\* the parse of a config text, with the default profile ensured at the end
ParseConfig(text) ==
    LET Ensured(st) ==
            IF "default" \in DOMAIN st.profiles THEN st.profiles
            ELSE Store(st.profiles, "default", ZeroProfile)
    IN  Ensured(LoadConfigLines([profiles |-> EmptyProfiles, current |-> "default"],
                                ScanLines(text)))

\* LoadConfig(configPath): [err, config, disk]
LoadConfig(d, configPath) ==
    LET Ensured(e) ==
            IF e.err # "" THEN [err |-> e.err, config |-> EmptyProfiles, disk |-> d]
            ELSE IF ~ReadOK(e.disk, configPath)
                THEN [err |-> ReadErr(e.disk, configPath), config |-> EmptyProfiles,
                      disk |-> e.disk]
            ELSE [err |-> "", config |-> ParseConfig(e.disk[configPath].content),
                  disk |-> e.disk]
    IN  Ensured(EnsureConfigFile(d, configPath))

\* the name GetProfileConfig uses when the environment is asked before the
\* argument: the mutant of ResolveName
ResolveNameEnvFirst(profileName, envProfile) ==
    LET fromArg == IF envProfile = "" THEN profileName ELSE envProfile
    IN  IF fromArg = "" THEN "default" ELSE fromArg

\* GetProfileConfig(config, profileName): the profile and the name stored in
\* CurrentProfile; envProfile is os.Getenv("REDRIP_PROFILE")
ResolveName(profileName, envProfile) ==
    LET fromEnv == IF profileName = "" THEN envProfile ELSE profileName
    IN  IF fromEnv = "" THEN "default" ELSE fromEnv

GetProfileConfig(config, profileName, envProfile) ==
    LET name == ResolveName(profileName, envProfile)
    IN  IF name \in DOMAIN config
            THEN [pc |-> config[name], current |-> name]
        ELSE [pc |-> Lookup(config, "default"), current |-> "default"]

\* the missing fields with api_key appended first: the mutant of MissingFields
MissingFieldsKeyFirst(pc) ==
    (IF pc.APIKey = "" THEN <<"api_key">> ELSE <<>>) \o
    (IF pc.RedashURL = "" THEN <<"redash_url">> ELSE <<>>)

\* ValidateProfileConfig: the error message, "" for nil
MissingFields(pc) ==
    (IF pc.RedashURL = "" THEN <<"redash_url">> ELSE <<>>) \o
    (IF pc.APIKey = "" THEN <<"api_key">> ELSE <<>>)

\* the validation that looks at redash_url alone: the mutant of
\* ValidateProfileConfig
ValidateURLOnly(pc) ==
    IF pc.RedashURL = ""
        THEN "required configuration values not found: " \o Join(MissingFields(pc), ", ")
    ELSE ""

ValidateProfileConfig(pc) ==
    IF pc.RedashURL = "" \/ pc.APIKey = ""
        THEN "required configuration values not found: " \o Join(MissingFields(pc), ", ")
    ELSE ""

\* os.UserHomeDir on Unix: $HOME, an error when it is empty
HomeErr(env) == IF env.HOME = "" THEN "$HOME is not defined" ELSE ""

\* filepath.Join(homeDir, ".redrip", "config.conf")
ConfigPath(env) == env.HOME \o "/.redrip/config.conf"

MissingRequiredText == "required configuration values not found"

\* GetProfileSQLDir(profileName): [dir, err, disk, current]
GetProfileSQLDir(d, env, current, profileName) ==
    LET Resolved(l, g) ==
            IF g.pc.SQLDir = ""
                THEN [dir |-> ".", err |-> "", disk |-> l.disk, current |-> g.current]
            ELSE IF ~Exists(l.disk, g.pc.SQLDir) \/ ~IsDirectory(l.disk, g.pc.SQLDir)
                THEN [dir |-> ".", err |-> "", disk |-> l.disk, current |-> g.current]
            ELSE [dir |-> g.pc.SQLDir, err |-> "", disk |-> l.disk, current |-> g.current]
        Loaded(l) ==
            IF l.err # ""
                THEN IF Contains(l.err, MissingRequiredText)
                         THEN [dir |-> ".", err |-> "", disk |-> l.disk, current |-> current]
                     ELSE [dir |-> "", err |-> "failed to load configuration: " \o l.err,
                           disk |-> l.disk, current |-> current]
            ELSE Resolved(l, GetProfileConfig(l.config, profileName, env.REDRIP_PROFILE))
    IN  IF HomeErr(env) # ""
            THEN [dir |-> "", err |-> "failed to get home directory: " \o HomeErr(env),
                  disk |-> d, current |-> current]
        ELSE Loaded(LoadConfig(d, ConfigPath(env)))

\* the Client value; ok is FALSE for the nil client returned with an error
NoClient == [ok |-> FALSE, baseURL |-> "", apiKey |-> "", profile |-> ""]

\* NewClientWithProfile(profileName): [client, err, disk, current]
NewClientWithProfile(d, env, current, profileName) ==
    LET Validated(l, g, v) ==
            IF v # ""
                THEN [client |-> NoClient,
                      err |-> "cannot create Redash client for profile '" \o g.current
                              \o "': " \o v,
                      disk |-> l.disk, current |-> g.current]
            ELSE [client |-> [ok |-> TRUE, baseURL |-> g.pc.RedashURL,
                              apiKey |-> g.pc.APIKey, profile |-> g.current],
                  err |-> "", disk |-> l.disk, current |-> g.current]
        Resolved(l, g) == Validated(l, g, ValidateProfileConfig(g.pc))
        Loaded(l) ==
            IF l.err # ""
                THEN [client |-> NoClient,
                      err |-> IF Contains(l.err, MissingRequiredText)
                                  THEN "cannot create Redash client: " \o l.err
                              ELSE "failed to load configuration: " \o l.err,
                      disk |-> l.disk, current |-> current]
            ELSE Resolved(l, GetProfileConfig(l.config, profileName, env.REDRIP_PROFILE))
    IN  IF HomeErr(env) # ""
            THEN [client |-> NoClient, err |-> "failed to get home directory: " \o HomeErr(env),
                  disk |-> d, current |-> current]
        ELSE Loaded(LoadConfig(d, ConfigPath(env)))

\* NewClient and GetSQLDir, kept for backward compatibility: the empty profile name
NewClient(d, env, current) == NewClientWithProfile(d, env, current, "")

GetSQLDir(d, env, current) == GetProfileSQLDir(d, env, current, "")

----------------------------------------------------------------------------
(* strconv and fmt's %d.                                                   *)

Digits == "0123456789"

IsDigit(c) == Len(c) = 1 /\ Index(Digits, c) # 0

DigitVal(c) == Index(Digits, c) - 1

RECURSIVE AllDigits(_)
AllDigits(s) == Len(s) = 0 \/ (IsDigit(Ch(s, 1)) /\ AllDigits(SubSeq(s, 2, Len(s))))

RECURSIVE DigitsVal(_, _)
DigitsVal(s, acc) ==
    IF Len(s) = 0 THEN acc
    ELSE DigitsVal(SubSeq(s, 2, Len(s)), acc * 10 + DigitVal(Ch(s, 1)))

\* strconv.Atoi with its error dropped by the caller, who then sees 0 and no
\* failure: the mutant of Atoi
AtoiErrorIgnored(s) ==
    LET signed == Len(s) > 0 /\ Ch(s, 1) \in {"+", "-"}
        body == IF signed THEN SubSeq(s, 2, Len(s)) ELSE s
    IN  IF Len(body) = 0 \/ ~AllDigits(body) THEN [ok |-> TRUE, val |-> 0]
        ELSE [ok |-> TRUE,
              val |-> IF signed /\ Ch(s, 1) = "-" THEN 0 - DigitsVal(body, 0) ELSE DigitsVal(body, 0)]

\* strconv.Atoi: an optional sign, then one or more decimal digits; [ok, val].
\* The names the model uses are short, so the value always fits an int.
Atoi(s) ==
    LET signed == Len(s) > 0 /\ Ch(s, 1) \in {"+", "-"}
        body == IF signed THEN SubSeq(s, 2, Len(s)) ELSE s
    IN  IF Len(body) = 0 \/ ~AllDigits(body) THEN [ok |-> FALSE, val |-> 0]
        ELSE [ok |-> TRUE,
              val |-> IF signed /\ Ch(s, 1) = "-" THEN 0 - DigitsVal(body, 0) ELSE DigitsVal(body, 0)]

\* fmt.Sprintf("%d", n)
RECURSIVE NatStr(_)
NatStr(n) == IF n < 10 THEN Ch(Digits, n + 1) ELSE NatStr(n \div 10) \o Ch(Digits, (n % 10) + 1)

Itoa(n) == IF n < 0 THEN "-" \o NatStr(0 - n) ELSE NatStr(n)

----------------------------------------------------------------------------
(* The Redash client: ListQueries and GetQuery, client.go.                 *)
(*                                                                         *)
(* The server holds a list of queries and answers a page request with the  *)
(* next pageLen of them and the total it reports.  One request of a        *)
(* command, the fault.at-th, may instead fail in transport, come back with *)
(* a non-200 status, or carry a body that is not JSON.                     *)

PageSize == 100

Min(a, b) == IF a < b THEN a ELSE b

\* a response: neterr (the transport failed), status, raw (the body when it is
\* not the expected JSON), valid (the body decodes), results and count
OKResponse(results, count) ==
    [neterr |-> FALSE, status |-> 200, raw |-> "", valid |-> TRUE,
     results |-> results, count |-> count]

FaultResponse(f) ==
    [neterr |-> f.neterr, status |-> f.status, raw |-> f.raw, valid |-> FALSE,
     results |-> <<>>, count |-> 0]

NoFault == [at |-> 0, neterr |-> FALSE, status |-> 200, raw |-> ""]

\* the server's answer to GET /queries?page=<page>&page_size=<size>, the n-th request
ListResponse(srv, n, page, size) ==
    IF srv.fault.at = n THEN FaultResponse(srv.fault)
    ELSE LET l == Min(size, srv.pageLen)
             from == (page - 1) * l + 1
             to == Min(page * l, Len(srv.queries))
         IN  OKResponse(SubSeq(srv.queries, from, to), srv.count)

RECURSIVE FindQuery(_, _)
FindQuery(qs, id) ==
    IF Len(qs) = 0 THEN <<>>
    ELSE IF Head(qs).ID = id THEN <<Head(qs)>>
    ELSE FindQuery(Tail(qs), id)

\* the server's answer to GET /queries/<id>: 404 for an id it does not hold
GetResponse(srv, n, id) ==
    IF srv.fault.at = n THEN FaultResponse(srv.fault)
    ELSE LET found == FindQuery(srv.queries, id)
         IN  IF Len(found) = 0
                 THEN [neterr |-> FALSE, status |-> 404, raw |-> "{\"message\": \"not found\"}",
                       valid |-> FALSE, results |-> <<>>, count |-> 0]
             ELSE OKResponse(found, 1)

\* a request with the header's scheme and no key: the mutant of Request
RequestWithoutKey(c, path) == [url |-> c.baseURL \o path, auth |-> "Key "]

Request(c, path) == [url |-> c.baseURL \o path, auth |-> "Key " \o c.apiKey]

\* the error a response is turned into, "" when it is decoded
Preview(body) == IF Len(body) > 200 THEN SubSeq(body, 1, 200) \o "..." ELSE body

HTMLErrorText ==
    "received HTML instead of JSON. This may indicate authentication issues or an incorrect URL. "
    \o "Please check your API key and Redash URL"

ResponseErr(resp) ==
    IF resp.neterr THEN "failed to execute request: connection refused"
    ELSE IF resp.status # 200
        THEN "received non-200 response: " \o Itoa(resp.status)
             \o " (content: " \o Preview(resp.raw) \o ")"
    ELSE IF ~resp.valid
        THEN IF HasPrefix(resp.raw, "<") THEN HTMLErrorText
             ELSE "failed to unmarshal response: invalid JSON"
    ELSE ""

\* ListQueries with a loop that goes on until a page comes back empty, whatever
\* total the responses report: the mutant of ListLoop
RECURSIVE ListLoopUntilEmpty(_, _, _, _, _)
ListLoopUntilEmpty(c, srv, page, allQueries, sent) ==
    LET req == Request(c, "/queries?page=" \o Itoa(page) \o "&page_size=" \o Itoa(PageSize))
        resp == ListResponse(srv, Len(sent) + 1, page, PageSize)
        e == ResponseErr(resp)
        all == allQueries \o resp.results
    IN  IF e # "" THEN [queries |-> <<>>, err |-> e, requests |-> Append(sent, req)]
        ELSE IF Len(resp.results) = 0
            THEN [queries |-> all, err |-> "", requests |-> Append(sent, req)]
        ELSE ListLoopUntilEmpty(c, srv, page + 1, all, Append(sent, req))

\* ListQueries: [queries, err, requests]; the loop from page on, with the
\* queries fetched and the requests sent so far
RECURSIVE ListLoop(_, _, _, _, _)
ListLoop(c, srv, page, allQueries, sent) ==
    LET req == Request(c, "/queries?page=" \o Itoa(page) \o "&page_size=" \o Itoa(PageSize))
        resp == ListResponse(srv, Len(sent) + 1, page, PageSize)
        e == ResponseErr(resp)
        all == allQueries \o resp.results
    IN  IF e # "" THEN [queries |-> <<>>, err |-> e, requests |-> Append(sent, req)]
        ELSE IF Len(all) >= resp.count \/ Len(resp.results) = 0
            THEN [queries |-> all, err |-> "", requests |-> Append(sent, req)]
        ELSE ListLoop(c, srv, page + 1, all, Append(sent, req))

ListQueries(c, srv, sent) == ListLoop(c, srv, 1, <<>>, sent)

\* GetQuery(id): [found, err, requests]; found is <<query>>, or <<>> for nil
GetQuery(c, srv, sent, id) ==
    LET req == Request(c, "/queries/" \o Itoa(id))
        resp == GetResponse(srv, Len(sent) + 1, id)
        e == ResponseErr(resp)
    IN  IF e # "" THEN [found |-> <<>>, err |-> e, requests |-> Append(sent, req)]
        ELSE [found |-> resp.results, err |-> "", requests |-> Append(sent, req)]

\* a test that takes every error for the HTML one: the mutant of
\* IsHTMLResponseError
IsAnyError(err) == err # ""

\* IsHTMLResponseError
IsHTMLResponseError(err) == err # "" /\ Contains(err, "HTML instead of JSON")

----------------------------------------------------------------------------
(* The diff engine: package diff, diff.go.                                 *)

\* diffmatchpatch's DiffPrettyText of two different texts, reduced to its
\* deleted and inserted parts
DiffPrettyText(localSQL, redashSQL) == "-" \o localSQL \o "+" \o redashSQL

NewResult(queryID, localPath) ==
    [QueryID |-> queryID, QueryName |-> "", Status |-> "", ErrorMessage |-> "",
     LocalPath |-> localPath, Differences |-> ""]

\* the comparison once the local file is read, with a nil query taken for the
\* zero Query: the mutant of CompareLoaded
CompareLoadedNilAsZero(named, content, redashQuery) ==
    LET localSQL == TrimSpace(content)
        redashSQL == IF Len(redashQuery) = 0 THEN "" ELSE TrimSpace(redashQuery[1].Query)
    IN  IF localSQL = redashSQL
            THEN [result |-> [named EXCEPT !.Status = "MATCH"], err |-> ""]
        ELSE [result |-> [named EXCEPT !.Status = "DIFFERENT",
                                       !.Differences = DiffPrettyText(localSQL, redashSQL)],
              err |-> ""]

\* the comparison that trims only the local side: the mutant of CompareLoaded
CompareLoadedTrimLocalOnly(named, content, redashQuery) ==
    IF Len(redashQuery) = 0
        THEN [result |-> [named EXCEPT !.Status = "MISSING_IN_REDASH"], err |-> ""]
    ELSE LET localSQL == TrimSpace(content)
             redashSQL == redashQuery[1].Query
         IN  IF localSQL = redashSQL
                 THEN [result |-> [named EXCEPT !.Status = "MATCH"], err |-> ""]
             ELSE [result |-> [named EXCEPT !.Status = "DIFFERENT",
                                            !.Differences = DiffPrettyText(localSQL, redashSQL)],
                   err |-> ""]

\* CompareQueryWithLocal once the local file is read: the nil check, then the
\* comparison of the trimmed texts
CompareLoaded(named, content, redashQuery) ==
    IF Len(redashQuery) = 0
        THEN [result |-> [named EXCEPT !.Status = "MISSING_IN_REDASH"], err |-> ""]
    ELSE LET localSQL == TrimSpace(content)
             redashSQL == TrimSpace(redashQuery[1].Query)
         IN  IF localSQL = redashSQL
                 THEN [result |-> [named EXCEPT !.Status = "MATCH"], err |-> ""]
             ELSE [result |-> [named EXCEPT !.Status = "DIFFERENT",
                                            !.Differences = DiffPrettyText(localSQL, redashSQL)],
                   err |-> ""]

\* CompareQueryWithLocal with the nil check moved before the check of the
\* local file: the mutant of CompareQueryWithLocal
CompareNilFirst(d, queryID, redashQuery, localPath) ==
    LET result == NewResult(queryID, localPath)
    IN  IF Len(redashQuery) = 0
            THEN [result |-> [result EXCEPT !.Status = "MISSING_IN_REDASH"], err |-> ""]
        ELSE IF ~Exists(d, localPath) \/ ~IsFile(d, localPath)
            THEN [result |-> result, err |-> "local SQL file does not exist: " \o localPath]
        ELSE IF ~ReadOK(d, localPath)
            THEN [result |-> [result EXCEPT !.QueryName = redashQuery[1].Name],
                  err |-> "failed to read local file: " \o ReadErr(d, localPath)]
        ELSE CompareLoaded([result EXCEPT !.QueryName = redashQuery[1].Name],
                           d[localPath].content, redashQuery)

\* CompareQueryWithLocal(queryID, redashQuery, localPath): [result, err];
\* redashQuery is <<query>>, or <<>> for nil
CompareQueryWithLocal(d, queryID, redashQuery, localPath) ==
    LET result == NewResult(queryID, localPath)
        named == IF Len(redashQuery) > 0
                     THEN [result EXCEPT !.QueryName = redashQuery[1].Name]
                 ELSE result
    IN  IF ~Exists(d, localPath) \/ ~IsFile(d, localPath)
            THEN [result |-> result, err |-> "local SQL file does not exist: " \o localPath]
        ELSE IF ~ReadOK(d, localPath)
            THEN [result |-> named, err |-> "failed to read local file: " \o ReadErr(d, localPath)]
        ELSE CompareLoaded(named, d[localPath].content, redashQuery)

----------------------------------------------------------------------------
(* os.ReadDir: the entries of a directory, sorted by file name.            *)

\* the characters of the model's file names, in byte order
AsciiOrder == " +-./0123456789_abcdefghijklmnopqrstuvwxyz"

Rank(c) == Index(AsciiOrder, c)

RECURSIVE StrLess(_, _)
StrLess(a, b) ==
    IF Len(b) = 0 THEN FALSE
    ELSE IF Len(a) = 0 THEN TRUE
    ELSE IF Ch(a, 1) = Ch(b, 1) THEN StrLess(SubSeq(a, 2, Len(a)), SubSeq(b, 2, Len(b)))
    ELSE Rank(Ch(a, 1)) < Rank(Ch(b, 1))

RECURSIVE SortNames(_)
SortNames(names) ==
    IF names = {} THEN <<>>
    ELSE LET first == CHOOSE n \in names : \A m \in names \ {n} : StrLess(n, m)
         IN  <<first>> \o SortNames(names \ {first})

\* the names of the entries of directory dir
Children(d, dir) ==
    IF dir = "."
        THEN {p \in DOMAIN d : p # "." /\ Index(p, "/") = 0}
    ELSE {SubSeq(p, Len(dir) + 2, Len(p)) :
            p \in {q \in DOMAIN d : /\ HasPrefix(q, dir \o "/")
                                    /\ Len(q) > Len(dir) + 1
                                    /\ Index(SubSeq(q, Len(dir) + 2, Len(q)), "/") = 0}}

ReadDir(d, dir) == SortNames(Children(d, dir))

\* DirEntry.IsDir: the entry's own type, a symbolic link is not a directory
EntryIsDir(d, path) == d[path].kind = "dir"

----------------------------------------------------------------------------
(* The commands: package commands.                                         *)

\* queryMap[id] after the loop that fills it: the last query listed with that id
RECURSIVE QueryMapGet(_, _)
QueryMapGet(queries, id) ==
    IF Len(queries) = 0 THEN <<>>
    ELSE IF queries[Len(queries)].ID = id THEN <<queries[Len(queries)]>>
    ELSE QueryMapGet(SubSeq(queries, 1, Len(queries) - 1), id)

NewSummary(profile, sqlDir) ==
    [Profile |-> profile, SQLDirectory |-> sqlDir, Matches |-> 0, Differences |-> 0,
     MissingInRedash |-> 0, Results |-> <<>>]

\* the switch on result.Status, with a counter that also counts ERROR results
CountResultAll(summary, result) ==
    IF result.Status = "MATCH" THEN [summary EXCEPT !.Matches = @ + 1]
    ELSE IF result.Status = "DIFFERENT" THEN [summary EXCEPT !.Differences = @ + 1]
    ELSE [summary EXCEPT !.MissingInRedash = @ + 1]

\* the switch on result.Status that updates the counters
CountResult(summary, result) ==
    IF result.Status = "MATCH" THEN [summary EXCEPT !.Matches = @ + 1]
    ELSE IF result.Status = "DIFFERENT" THEN [summary EXCEPT !.Differences = @ + 1]
    ELSE IF result.Status = "MISSING_IN_REDASH" THEN [summary EXCEPT !.MissingInRedash = @ + 1]
    ELSE summary

\* the result a failed comparison is given by its caller
AsError(cmp) ==
    IF cmp.err # "" THEN [cmp.result EXCEPT !.Status = "ERROR", !.ErrorMessage = cmp.err]
    ELSE cmp.result

\* the loop body that looks for <id>.sql whatever the entry is named: the
\* mutant of DiffAllEntry
DiffAllEntryByID(d, queries, sqlDir, acc, name) ==
    LET Compared(id, localPath, queryPtr, cmp, result) ==
            [summary |-> [CountResult(acc.summary, result)
                              EXCEPT !.Results = Append(@, result)],
             compares |-> Append(acc.compares,
                                 [queryID |-> id, redashQuery |-> queryPtr,
                                  localPath |-> localPath,
                                  result |-> cmp.result, err |-> cmp.err])]
        Looked(id, localPath, queryPtr, cmp) ==
            Compared(id, localPath, queryPtr, cmp, AsError(cmp))
        Eligible(id, localPath, queryPtr) ==
            Looked(id, localPath, queryPtr,
                   CompareQueryWithLocal(d, id, queryPtr, localPath))
        Parsed(id) ==
            IF ~id.ok THEN acc
            ELSE Eligible(id.val, PathJoin(sqlDir, Itoa(id.val) \o ".sql"), QueryMapGet(queries, id.val))
    IN  IF EntryIsDir(d, PathJoin(sqlDir, name)) \/ ~HasSuffix(name, ".sql") THEN acc
        ELSE Parsed(Atoi(TrimSuffix(name, ".sql")))

\* the body of diff all's loop for one directory entry; acc is [summary, compares]
DiffAllEntry(d, queries, sqlDir, acc, name) ==
    LET Compared(id, localPath, queryPtr, cmp, result) ==
            [summary |-> [CountResult(acc.summary, result)
                              EXCEPT !.Results = Append(@, result)],
             compares |-> Append(acc.compares,
                                 [queryID |-> id, redashQuery |-> queryPtr,
                                  localPath |-> localPath,
                                  result |-> cmp.result, err |-> cmp.err])]
        Looked(id, localPath, queryPtr, cmp) ==
            Compared(id, localPath, queryPtr, cmp, AsError(cmp))
        Eligible(id, localPath, queryPtr) ==
            Looked(id, localPath, queryPtr,
                   CompareQueryWithLocal(d, id, queryPtr, localPath))
        Parsed(id) ==
            IF ~id.ok THEN acc
            ELSE Eligible(id.val, PathJoin(sqlDir, name), QueryMapGet(queries, id.val))
    IN  IF EntryIsDir(d, PathJoin(sqlDir, name)) \/ ~HasSuffix(name, ".sql") THEN acc
        ELSE Parsed(Atoi(TrimSuffix(name, ".sql")))

\* diff all's loop leaving at the first comparison that fails: the mutant of
\* DiffAllLoop
RECURSIVE DiffAllLoopStopOnError(_, _, _, _, _)
DiffAllLoopStopOnError(d, queries, sqlDir, acc, entries) ==
    LET Stepped(next) ==
            IF Len(next.compares) > Len(acc.compares)
               /\ next.compares[Len(next.compares)].err # "" THEN next
            ELSE DiffAllLoopStopOnError(d, queries, sqlDir, next, Tail(entries))
    IN  IF Len(entries) = 0 THEN acc
        ELSE Stepped(DiffAllEntry(d, queries, sqlDir, acc, Head(entries)))

RECURSIVE DiffAllLoop(_, _, _, _, _)
DiffAllLoop(d, queries, sqlDir, acc, entries) ==
    IF Len(entries) = 0 THEN acc
    ELSE DiffAllLoop(d, queries, sqlDir,
                     DiffAllEntry(d, queries, sqlDir, acc, Head(entries)), Tail(entries))

\* what a command leaves behind: its error ("" for nil), what it printed, the
\* disk, CurrentProfile, the requests it sent and the comparisons it made
Outcome(err, out, d, current, sent, cmps) ==
    [err |-> err, out |-> out, disk |-> d, current |-> current,
     requests |-> sent, compares |-> cmps]

NoOutput == [printed |-> FALSE]

\* diffAllCmd.RunE with the --profile flag's value
DiffAll(d, env, srv, profile) ==
    LET Compared(g, l, acc) ==
            Outcome("", [printed |-> TRUE, summary |-> acc.summary],
                    g.disk, g.current, l.requests, acc.compares)
        Listed(g, l) ==
            IF l.err # ""
                THEN Outcome(l.err, [printed |-> FALSE,
                                     suggestions |-> IsHTMLResponseError(l.err)],
                             g.disk, g.current, l.requests, <<>>)
            ELSE Compared(g, l, DiffAllLoop(g.disk, l.queries, g.dir,
                                            [summary |-> NewSummary(g.current, g.dir),
                                             compares |-> <<>>],
                                            ReadDir(g.disk, g.dir)))
        Located(n, g) ==
            IF g.err # ""
                THEN Outcome("failed to get SQL directory: " \o g.err, NoOutput,
                             g.disk, g.current, <<>>, <<>>)
            ELSE IF ~Exists(g.disk, g.dir) \/ ~IsDirectory(g.disk, g.dir)
                THEN Outcome("SQL directory does not exist: " \o g.dir, NoOutput,
                             g.disk, g.current, <<>>, <<>>)
            ELSE Listed(g, ListQueries(n.client, srv, <<>>))
        Created(n) ==
            IF n.err # ""
                THEN Outcome("failed to initialize Redash client: " \o n.err, NoOutput,
                             n.disk, n.current, <<>>, <<>>)
            ELSE Located(n, GetProfileSQLDir(n.disk, env, n.current, profile))
    IN  Created(NewClientWithProfile(d, env, "", profile))

\* encoding/json's rendering of a string: its characters, the quote, the
\* backslash and the control characters escaped
EscapeChar(c) ==
    IF c = "\"" THEN "\\\""
    ELSE IF c = "\\" THEN "\\\\"
    ELSE IF c = "\n" THEN "\\n"
    ELSE IF c = "\r" THEN "\\r"
    ELSE IF c = "\t" THEN "\\t"
    ELSE c

RECURSIVE EscapeString(_)
EscapeString(s) ==
    IF Len(s) = 0 THEN "" ELSE EscapeChar(Ch(s, 1)) \o EscapeString(SubSeq(s, 2, Len(s)))

MarshalQuery(q) ==
    "{\"id\": " \o Itoa(q.ID) \o ", \"name\": \"" \o EscapeString(q.Name)
    \o "\", \"query\": \"" \o EscapeString(q.Query) \o "\"}"

RECURSIVE MarshalEach(_)
MarshalEach(queries) ==
    IF Len(queries) = 0 THEN <<>>
    ELSE <<MarshalQuery(Head(queries))>> \o MarshalEach(Tail(queries))

\* json.MarshalIndent(queries, "", "  "), without the indentation; a listing
\* of no query is the nil slice, which is marshalled as null
MarshalQueries(queries) ==
    IF Len(queries) = 0 THEN "null" ELSE "[" \o Join(MarshalEach(queries), ", ") \o "]"

\* listCmd.RunE: the client of the empty profile name, then the listing
List(d, env, srv) ==
    LET Listed(n, l) ==
            IF l.err # ""
                THEN Outcome(l.err, [printed |-> FALSE, suggestions |-> FALSE],
                             n.disk, n.current, l.requests, <<>>)
            ELSE Outcome("", [printed |-> TRUE, queries |-> l.queries],
                         n.disk, n.current, l.requests, <<>>)
        Created(n) ==
            IF n.err # ""
                THEN Outcome("failed to initialize Redash client: " \o n.err, NoOutput,
                             n.disk, n.current, <<>>, <<>>)
            ELSE Listed(n, ListQueries(n.client, srv, <<>>))
    IN  Created(NewClient(d, env, ""))

\* getCmd.RunE with its argument and the --profile flag's value
Get(d, env, srv, profile, arg) ==
    LET Saved(q, g, filePath, w) ==
            IF w.err # ""
                THEN Outcome("failed to write file: " \o w.err, NoOutput, w.disk, g.current,
                             q.requests, <<>>)
            ELSE Outcome("", [printed |-> TRUE, saved |-> filePath],
                         w.disk, g.current, q.requests, <<>>)
        Named(q, g, filePath) ==
            Saved(q, g, filePath, WriteFile(g.disk, filePath, q.found[1].Query))
        Located(q, g) ==
            IF g.err # ""
                THEN Outcome("failed to get SQL directory: " \o g.err,
                             NoOutput, g.disk, g.current, q.requests, <<>>)
            ELSE Named(q, g, PathJoin(g.dir, Itoa(q.found[1].ID) \o ".sql"))
        Fetched(n, q) ==
            IF q.err # ""
                THEN Outcome(q.err, [printed |-> FALSE,
                                     suggestions |-> IsHTMLResponseError(q.err)],
                             n.disk, n.current, q.requests, <<>>)
            ELSE Located(q, GetProfileSQLDir(n.disk, env, n.current, profile))
        Created(id, n) ==
            IF n.err # ""
                THEN Outcome("failed to initialize Redash client: " \o n.err, NoOutput,
                             n.disk, n.current, <<>>, <<>>)
            ELSE Fetched(n, GetQuery(n.client, srv, <<>>, id.val))
        Parsed(id) ==
            IF ~id.ok
                THEN Outcome("strconv.Atoi: parsing \"" \o arg \o "\": invalid syntax",
                             NoOutput, d, "", <<>>, <<>>)
            ELSE Created(id, NewClientWithProfile(d, env, "", profile))
    IN  Parsed(Atoi(arg))

\* a loop that writes the first query only: the mutant of DumpLoop
DumpLoopFirstOnly(d, sqlDir, queries) ==
    LET Written(w) == [err |-> w.err, disk |-> w.disk]
    IN  IF Len(queries) = 0 THEN [err |-> "", disk |-> d]
        ELSE Written(WriteFile(d, PathJoin(sqlDir, Itoa(Head(queries).ID) \o ".sql"),
                               Head(queries).Query))

\* dump's loop over the queries: stops at the first write that fails
RECURSIVE DumpLoop(_, _, _)
DumpLoop(d, sqlDir, queries) ==
    LET Written(w) ==
            IF w.err # "" THEN [err |-> w.err, disk |-> w.disk]
            ELSE DumpLoop(w.disk, sqlDir, Tail(queries))
    IN  IF Len(queries) = 0 THEN [err |-> "", disk |-> d]
        ELSE Written(WriteFile(d, PathJoin(sqlDir, Itoa(Head(queries).ID) \o ".sql"),
                               Head(queries).Query))

\* dumpCmd.RunE; timestamp is time.Now().Format("20060102150405")
Dump(d, env, srv, timestamp) ==
    LET jsonFilename == timestamp \o ".json"
        Saved(l, g, w) ==
            IF w.err # ""
                THEN Outcome(w.err, NoOutput, w.disk, g.current, l.requests, <<>>)
            ELSE Outcome("", [printed |-> TRUE, dir |-> g.dir, json |-> jsonFilename],
                         w.disk, g.current, l.requests, <<>>)
        Listed(l, g, jsonFilePath, j) ==
            IF j.err # ""
                THEN Outcome("failed to write JSON file " \o jsonFilePath \o ": " \o j.err,
                             NoOutput, j.disk, g.current, l.requests, <<>>)
            ELSE Saved(l, g, DumpLoop(j.disk, g.dir, l.queries))
        Named(l, g, jsonFilePath) ==
            Listed(l, g, jsonFilePath,
                   WriteFile(g.disk, jsonFilePath, MarshalQueries(l.queries)))
        Located(l, g) ==
            IF g.err # ""
                THEN Outcome("failed to get SQL directory: " \o g.err, NoOutput,
                             g.disk, g.current, l.requests, <<>>)
            ELSE Named(l, g, PathJoin(g.dir, jsonFilename))
        Fetched(n, l) ==
            IF l.err # ""
                THEN Outcome(l.err, [printed |-> FALSE, suggestions |-> FALSE],
                             n.disk, n.current, l.requests, <<>>)
            ELSE Located(l, GetSQLDir(n.disk, env, n.current))
        Created(n) ==
            IF n.err # ""
                THEN Outcome("failed to initialize Redash client: " \o n.err, NoOutput,
                             n.disk, n.current, <<>>, <<>>)
            ELSE Fetched(n, ListQueries(n.client, srv, <<>>))
    IN  Created(NewClient(d, env, ""))

\* diff query that asks the server before it looks for the local file: the
\* mutant of DiffQuery
DiffQueryFetchFirst(d, env, srv, profile, arg) ==
    LET Compared(id, g, q, localPath, cmp) ==
            Outcome("", [printed |-> TRUE, result |-> AsError(cmp)],
                    g.disk, g.current, q.requests,
                    <<[queryID |-> id.val, redashQuery |-> q.found, localPath |-> localPath,
                       result |-> cmp.result, err |-> cmp.err]>>)
        Fetched(id, g, localPath, q) ==
            IF q.err # ""
                THEN Outcome("", [printed |-> TRUE,
                                  suggestions |-> IsHTMLResponseError(q.err),
                                  result |-> [NewResult(id.val, localPath) EXCEPT
                                      !.Status = "ERROR",
                                      !.ErrorMessage = "failed to get query from Redash: "
                                                       \o q.err]],
                             g.disk, g.current, q.requests, <<>>)
            ELSE Compared(id, g, q, localPath,
                          CompareQueryWithLocal(g.disk, id.val, q.found, localPath))
        Named(id, n, g, localPath) ==
            Fetched(id, g, localPath, GetQuery(n.client, srv, <<>>, id.val))
        Located(id, n, g) ==
            IF g.err # ""
                THEN Outcome("failed to get SQL directory: " \o g.err, NoOutput,
                             g.disk, g.current, <<>>, <<>>)
            ELSE Named(id, n, g, PathJoin(g.dir, Itoa(id.val) \o ".sql"))
        Created(id, n) ==
            IF n.err # ""
                THEN Outcome("failed to initialize Redash client: " \o n.err, NoOutput,
                             n.disk, n.current, <<>>, <<>>)
            ELSE Located(id, n, GetProfileSQLDir(n.disk, env, n.current, profile))
        Parsed(id) ==
            IF ~id.ok THEN Outcome("invalid query ID: " \o arg, NoOutput, d, "", <<>>, <<>>)
            ELSE Created(id, NewClientWithProfile(d, env, "", profile))
    IN  Parsed(Atoi(arg))

\* diffQueryCmd.RunE with its argument and the --profile flag's value
DiffQuery(d, env, srv, profile, arg) ==
    LET Compared(id, g, q, localPath, cmp) ==
            Outcome("", [printed |-> TRUE, result |-> AsError(cmp)],
                    g.disk, g.current, q.requests,
                    <<[queryID |-> id.val, redashQuery |-> q.found, localPath |-> localPath,
                       result |-> cmp.result, err |-> cmp.err]>>)
        Fetched(id, g, localPath, q) ==
            IF q.err # ""
                THEN Outcome("", [printed |-> TRUE,
                                  suggestions |-> IsHTMLResponseError(q.err),
                                  result |-> [NewResult(id.val, localPath) EXCEPT
                                      !.Status = "ERROR",
                                      !.ErrorMessage = "failed to get query from Redash: "
                                                       \o q.err]],
                             g.disk, g.current, q.requests, <<>>)
            ELSE Compared(id, g, q, localPath,
                          CompareQueryWithLocal(g.disk, id.val, q.found, localPath))
        Named(id, n, g, localPath) ==
            IF ~Exists(g.disk, localPath)
                THEN Outcome("", [printed |-> TRUE,
                                  result |-> [NewResult(id.val, localPath) EXCEPT
                                      !.Status = "ERROR",
                                      !.ErrorMessage = "local SQL file does not exist: "
                                                       \o localPath]],
                             g.disk, g.current, <<>>, <<>>)
            ELSE Fetched(id, g, localPath, GetQuery(n.client, srv, <<>>, id.val))
        Located(id, n, g) ==
            IF g.err # ""
                THEN Outcome("failed to get SQL directory: " \o g.err, NoOutput,
                             g.disk, g.current, <<>>, <<>>)
            ELSE Named(id, n, g, PathJoin(g.dir, Itoa(id.val) \o ".sql"))
        Created(id, n) ==
            IF n.err # ""
                THEN Outcome("failed to initialize Redash client: " \o n.err, NoOutput,
                             n.disk, n.current, <<>>, <<>>)
            ELSE Located(id, n, GetProfileSQLDir(n.disk, env, n.current, profile))
        Parsed(id) ==
            IF ~id.ok THEN Outcome("invalid query ID: " \o arg, NoOutput, d, "", <<>>, <<>>)
            ELSE Created(id, NewClientWithProfile(d, env, "", profile))
    IN  Parsed(Atoi(arg))

\* showProfileConfig that prints the key itself: the mutant of ShowProfileConfig
ShowProfileConfigKeyShown(d, config, profileName) ==
    IF profileName \in DOMAIN config
        THEN <<"  redash_url = " \o (IF config[profileName].RedashURL # ""
                                         THEN config[profileName].RedashURL ELSE "[NOT SET]"),
               "  api_key = " \o (IF config[profileName].APIKey # ""
                                      THEN config[profileName].APIKey ELSE "[NOT SET]"),
               "  sql_dir = " \o config[profileName].SQLDir>>
    ELSE <<"Profile '" \o profileName \o "' does not exist">>

\* showProfileConfig: the lines it prints
ShowProfileConfig(d, config, profileName) ==
    LET Lines(profileConfig) ==
            <<"  redash_url = " \o (IF profileConfig.RedashURL # "" THEN profileConfig.RedashURL
                                    ELSE "[NOT SET]"),
              "  api_key = " \o (IF profileConfig.APIKey # "" THEN "[REDACTED]"
                                 ELSE "[NOT SET]"),
              "  sql_dir = " \o (IF profileConfig.SQLDir = ""
                                     THEN "[NOT SET - using current directory]"
                                 ELSE IF ~Exists(d, profileConfig.SQLDir)
                                     THEN profileConfig.SQLDir
                                          \o " [DIRECTORY DOES NOT EXIST - will use current directory]"
                                 ELSE profileConfig.SQLDir)>>
    IN  IF profileName \in DOMAIN config THEN Lines(config[profileName])
        ELSE <<"Profile '" \o profileName \o "' does not exist">>

\* the loop over config.Profiles of config list; order is the order in which
\* the map's keys come, which Go leaves open
RECURSIVE ShowAvailable(_, _, _, _)
ShowAvailable(d, config, order, activeProfile) ==
    IF Len(order) = 0 THEN <<>>
    ELSE IF Head(order) \notin DOMAIN config \/ Head(order) = activeProfile
        THEN ShowAvailable(d, config, Tail(order), activeProfile)
    ELSE <<"[" \o Head(order) \o "]">> \o ShowProfileConfig(d, config, Head(order)) \o <<"">>
         \o ShowAvailable(d, config, Tail(order), activeProfile)

\* config list that shows the profile it resolved when the flag is set: the
\* mutant of ConfigListShown
ConfigListShownResolved(d, env, profile, order, config, activeProfile) ==
    IF profile # "" THEN ShowProfileConfig(d, config, activeProfile)
    ELSE (IF activeProfile # ""
              THEN <<"Active profile: " \o activeProfile
                     \o (IF env.REDRIP_PROFILE # "" /\ env.REDRIP_PROFILE = activeProfile
                             THEN " (from REDRIP_PROFILE environment variable)" ELSE "")>>
                   \o ShowProfileConfig(d, config, activeProfile) \o <<"">>
          ELSE <<>>)
         \o <<"Available profiles:", "------------------">>
         \o ShowAvailable(d, config, order, activeProfile)

\* configListCmd.RunE from "If profile is specified" on: the lines printed
\* for the loaded config and the active profile
ConfigListShown(d, env, profile, order, config, activeProfile) ==
    IF profile # "" THEN ShowProfileConfig(d, config, profile)
    ELSE (IF activeProfile # ""
              THEN <<"Active profile: " \o activeProfile
                     \o (IF env.REDRIP_PROFILE # "" /\ env.REDRIP_PROFILE = activeProfile
                             THEN " (from REDRIP_PROFILE environment variable)" ELSE "")>>
                   \o ShowProfileConfig(d, config, activeProfile) \o <<"">>
          ELSE <<>>)
         \o <<"Available profiles:", "------------------">>
         \o ShowAvailable(d, config, order, activeProfile)

\* configListCmd.RunE with the --profile flag's value: [err, lines, disk]
ConfigList(d, env, profile, order) ==
    LET configPath == ConfigPath(env)
        FromFlag == IF profile # "" THEN profile
                    ELSE IF env.REDRIP_PROFILE # "" THEN env.REDRIP_PROFILE
                    ELSE "default"
        Active(config) == IF FromFlag \in DOMAIN config THEN FromFlag ELSE "default"
        Loaded(l) ==
            IF l.err # ""
                THEN [err |-> "failed to load config: " \o l.err, lines |-> <<>>, disk |-> l.disk]
            ELSE [err |-> "",
                  lines |-> <<"Configuration file: " \o configPath, "">>
                            \o ConfigListShown(l.disk, env, profile, order, l.config,
                                               Active(l.config)),
                  disk |-> l.disk]
        Created(e) ==
            IF e.err # ""
                THEN [err |-> "failed to create config file: " \o e.err,
                      lines |-> <<"Config file does not exist. Creating default config file...">>,
                      disk |-> e.disk]
            ELSE [err |-> "",
                  lines |-> <<"Config file does not exist. Creating default config file...",
                              "Default config file created at " \o configPath,
                              "Please edit it to set your Redash URL and API Key">>,
                  disk |-> e.disk]
    IN  IF HomeErr(env) # ""
            THEN [err |-> "failed to get home directory: " \o HomeErr(env), lines |-> <<>>,
                  disk |-> d]
        ELSE IF ~Exists(d, configPath) THEN Created(EnsureConfigFile(d, configPath))
        ELSE Loaded(LoadConfig(d, configPath))

----------------------------------------------------------------------------
(* Bounds and the values the inputs are drawn from.                        *)

MaxTextLen == 2     \* the longest SQL text of a direct comparison
MaxEntries == 2     \* the most entries of the SQL directory under diff all

\* the characters of SQL texts: two kinds of white space and two letters
TextChars == {" ", "\n", "a", "b"}

RECURSIVE Strs(_, _)
Strs(chars, n) ==
    IF n = 0 THEN {""}
    ELSE LET shorter == Strs(chars, n - 1)
         IN  shorter \cup {s \o c : s \in shorter, c \in chars}

Texts == Strs(TextChars, MaxTextLen)

Query(id, name, text) == [ID |-> id, Name |-> name, Query |-> text]

HomeEnv(profile) == [HOME |-> "/h", REDRIP_PROFILE |-> profile]

\* a server that holds these queries, serves them in one page and reports their number
PlainServer(queries) ==
    [queries |-> queries, pageLen |-> PageSize, count |-> Len(queries), fault |-> NoFault]

\* the current directory, which always exists
BaseDisk == [p \in {"."} |-> OtherNode("dir")]

NoCall == [op |-> "none", err |-> "", out |-> NoOutput]

CompareRecord(queryID, redashQuery, localPath, cmp) ==
    [queryID |-> queryID, redashQuery |-> redashQuery, localPath |-> localPath,
     result |-> cmp.result, err |-> cmp.err]

----------------------------------------------------------------------------
(* SpecCompare: CompareQueryWithLocal called on every kind of local path,  *)
(* with and without a remote query.                                        *)

ComparePath == "3.sql"

CompareNodes == {OtherNode(k) : k \in NodeKinds \ {"file"}} \cup {FileNode(t) : t \in Texts}

InitCompare ==
    /\ disk \in {BaseDisk} \cup {Put(BaseDisk, ComparePath, node) : node \in CompareNodes}
    /\ environ = HomeEnv("")
    /\ server = PlainServer(<<>>)
    /\ CurrentProfile = ""
    /\ call = NoCall
    /\ compares = <<>>
    /\ requests = <<>>

CallCompare ==
    \E redashQuery \in {<<>>} \cup {<<Query(3, "q3", t)>> : t \in Texts} :
        LET cmp == CompareQueryWithLocal(disk, 3, redashQuery, ComparePath)
        IN  /\ call' = [op |-> "CompareQueryWithLocal", err |-> cmp.err, out |-> NoOutput]
            /\ compares' = <<CompareRecord(3, redashQuery, ComparePath, cmp)>>
            /\ UNCHANGED <<disk, environ, server, CurrentProfile, requests>>

NextCompare == CallCompare

SpecCompare == InitCompare /\ [][NextCompare]_vars

----------------------------------------------------------------------------
(* The command actions: one whole run of a command, which leaves its       *)
(* outcome in call, compares and requests.                                 *)

Ran(op, profile, arg, o) ==
    /\ call' = [op |-> op, profile |-> profile, arg |-> arg, err |-> o.err, out |-> o.out]
    /\ disk' = o.disk
    /\ CurrentProfile' = o.current
    /\ requests' = o.requests
    /\ compares' = o.compares
    /\ UNCHANGED <<environ, server>>

----------------------------------------------------------------------------
(* SpecDiffAll: diff all over every SQL directory of at most MaxEntries    *)
(* entries, whose names are and are not <integer>.sql and whose nodes are  *)
(* of every kind.                                                          *)

DirNames == {"3.sql", "007.sql", "+7.sql", "abc.sql", "3.txt", ".sql"}

EntryTexts == {"a", " b\n"}

EntryNodes == {OtherNode(k) : k \in NodeKinds \ {"file"}} \cup {FileNode(t) : t \in EntryTexts}

DiffConfigPath == "/h/.redrip/config.conf"

\* the SQL directory and the config file that names it
DiffDirs == {".", "/sql"}

DiffConfig(dir) ==
    "[default]\nredash_url = http://r/api\napi_key = K\nsql_dir = "
    \o (IF dir = "." THEN "" ELSE dir) \o "\n"

DiffBaseDisk(dir) ==
    Put(Put(BaseDisk, dir, OtherNode("dir")), DiffConfigPath, FileNode(DiffConfig(dir)))

\* every way to put the names of a set into a directory
RECURSIVE WithEntries(_, _, _)
WithEntries(d, dir, names) ==
    IF names = {} THEN {d}
    ELSE LET n == CHOOSE x \in names : TRUE
         IN  UNION {WithEntries(Put(d, PathJoin(dir, n), node), dir, names \ {n}) :
                        node \in EntryNodes}

DiffDisks ==
    UNION {WithEntries(DiffBaseDisk(dir), dir, names) :
               dir \in DiffDirs,
               names \in {ns \in SUBSET DirNames : Cardinality(ns) <= MaxEntries}}

DiffServers ==
    {PlainServer(<<>>),
     PlainServer(<<Query(7, "q7", "b"), Query(3, "old", "b"), Query(3, "q3", "a ")>>),
     [PlainServer(<<Query(3, "q3", "a")>>) EXCEPT
         !.fault = [at |-> 1, neterr |-> FALSE, status |-> 500, raw |-> "Internal Server Error"]]}

InitDiffAll ==
    /\ disk \in DiffDisks
    /\ environ = HomeEnv("")
    /\ server \in DiffServers
    /\ CurrentProfile = ""
    /\ call = NoCall
    /\ compares = <<>>
    /\ requests = <<>>

CmdDiffAll(profiles) ==
    \E profile \in profiles : Ran("diff all", profile, "", DiffAll(disk, environ, server, profile))

NextDiffAll == CmdDiffAll({""})

SpecDiffAll == InitDiffAll /\ [][NextDiffAll]_vars

----------------------------------------------------------------------------
(* SpecProfile: the profile functions of client.go called one by one, over *)
(* config files with and without the profiles asked for and SQL            *)
(* directories of every kind.                                              *)

ProfileNames == {"", "default", "stg", "nope"}

EnvProfiles == {"", "stg", "nope"}

TwoProfiles ==
    "[default]\nredash_url = http://r/api\napi_key = K\nsql_dir = /sql\n\n"
    \o "[profile stg]\nredash_url = http://s/api\napi_key = S\nsql_dir = /stg\n"

NoSQLDir ==
    "[default]\nredash_url = http://r/api\napi_key = K\n\n"
    \o "[profile stg]\nredash_url = \napi_key = S\nsql_dir =\n"

OnlyStg == "[profile stg]\nredash_url = http://s/api\napi_key = \nsql_dir = /sql\n"

ConfigTexts == {TwoProfiles, NoSQLDir, OnlyStg}

\* the disks of SpecProfile: the config file absent, where the first call
\* creates it with the default content, or with one of the texts; /sql absent
\* or a node of some kind; /stg a directory
ProfileDisks ==
    LET based == Put(BaseDisk, "/stg", OtherNode("dir"))
        configs == {based} \cup {Put(based, DiffConfigPath, FileNode(t)) : t \in ConfigTexts}
    IN  configs \cup {Put(d, "/sql", node) : d \in configs,
                          node \in {OtherNode(k) : k \in {"dir", "linkdir", "dangling"}}
                                   \cup {FileNode("a")}}

ProfileValues ==
    [RedashURL : {"", "http://r/api"}, APIKey : {"", "K"}, SQLDir : {"", "/sql"}]

InitProfile ==
    /\ disk \in ProfileDisks
    /\ environ \in {HomeEnv(e) : e \in EnvProfiles}
    /\ server = PlainServer(<<>>)
    /\ CurrentProfile = ""
    /\ call = NoCall
    /\ compares = <<>>
    /\ requests = <<>>

\* LoadConfig of the config file, then GetProfileConfig of what it returned
CallGetProfileConfig ==
    \E profileName \in ProfileNames :
        LET l == LoadConfig(disk, ConfigPath(environ))
            g == GetProfileConfig(l.config, profileName, environ.REDRIP_PROFILE)
        IN  /\ l.err = ""
            /\ call' = [op |-> "GetProfileConfig", profile |-> profileName, err |-> "",
                        out |-> NoOutput, config |-> l.config, pc |-> g.pc]
            /\ disk' = l.disk
            /\ CurrentProfile' = g.current
            /\ UNCHANGED <<environ, server, compares, requests>>

CallValidateProfileConfig ==
    \E pc \in ProfileValues :
        /\ call' = [op |-> "ValidateProfileConfig", err |-> ValidateProfileConfig(pc),
                    out |-> NoOutput, pc |-> pc]
        /\ UNCHANGED <<disk, environ, server, CurrentProfile, compares, requests>>

CallGetProfileSQLDir ==
    \E profileName \in ProfileNames :
        LET r == GetProfileSQLDir(disk, environ, CurrentProfile, profileName)
        IN  /\ call' = [op |-> "GetProfileSQLDir", profile |-> profileName, err |-> r.err,
                        out |-> NoOutput, dir |-> r.dir]
            /\ disk' = r.disk
            /\ CurrentProfile' = r.current
            /\ UNCHANGED <<environ, server, compares, requests>>

NextProfile == CallGetProfileConfig \/ CallValidateProfileConfig \/ CallGetProfileSQLDir

SpecProfile == InitProfile /\ [][NextProfile]_vars

----------------------------------------------------------------------------
(* Spec: the commands of the program run one after another, over config    *)
(* files that are absent, incomplete and complete.                         *)

CommandProfiles == {"", "stg"}

CommandArgs == {"3", "abc"}

DumpTimestamp == "20260101000000"

\* the disks of Spec: the config file absent, unreadable or with one of the
\* texts; /sql absent or a directory; 3.sql absent, a file or a directory (which
\* no write can replace) in the current directory
CommandDisks ==
    LET configs == {BaseDisk, Put(BaseDisk, DiffConfigPath, OtherNode("noperm"))}
                   \cup {Put(BaseDisk, DiffConfigPath, FileNode(t)) :
                             t \in ConfigTexts \cup {DefaultConfigContent}}
        withSql == configs \cup {Put(d, "/sql", OtherNode("dir")) : d \in configs}
    IN  withSql \cup {Put(d, "3.sql", node) : d \in withSql,
                                                node \in {FileNode("a"), OtherNode("dir")}}

\* the servers of Spec: those of SpecDiffAll, and two that answer the first
\* request with status 200 and an HTML page, one of them after a newline
CommandServers ==
    DiffServers
    \cup {[PlainServer(<<Query(3, "q3", "a")>>) EXCEPT
              !.fault = [at |-> 1, neterr |-> FALSE, status |-> 200, raw |-> page]] :
           page \in {"<html>login</html>", "\n<html>login</html>"}}

Init ==
    /\ disk \in CommandDisks
    /\ environ \in {HomeEnv(e) : e \in CommandProfiles}
    /\ server \in CommandServers
    /\ CurrentProfile = ""
    /\ call = NoCall
    /\ compares = <<>>
    /\ requests = <<>>

\* list and dump are run with the --profile flag too, and do not read it
CmdList ==
    \E profile \in CommandProfiles : Ran("list", profile, "", List(disk, environ, server))

CmdGet ==
    \E profile \in CommandProfiles, arg \in CommandArgs :
        Ran("get", profile, arg, Get(disk, environ, server, profile, arg))

CmdDump ==
    \E profile \in CommandProfiles :
        Ran("dump", profile, "", Dump(disk, environ, server, DumpTimestamp))

CmdDiffQuery ==
    \E profile \in CommandProfiles, arg \in CommandArgs :
        Ran("diff query", profile, arg, DiffQuery(disk, environ, server, profile, arg))

Next == CmdList \/ CmdGet \/ CmdDump \/ CmdDiffAll(CommandProfiles) \/ CmdDiffQuery

Spec == Init /\ [][Next]_vars

----------------------------------------------------------------------------
(* SpecConfig: EnsureConfigFile and LoadConfig called in any order on a    *)
(* config path that is absent, not a readable file, or a file of at most   *)
(* MaxLines lines, each one of the lines of ConfigLines.                   *)

MaxLines == 3     \* the most lines of a config file under SpecConfig

\* the lines: key lines with and without white space around the key and the
\* value, a key line with a second "=", the two kinds of section header, a
\* bracketed line that is neither, a line with no "=", and a comment
ConfigLines ==
    {"redash_url = http://r/api", " api_key =  K ", "sql_dir = a=b",
     "[default]", "[profile stg]", "[stg]", "novalue", "# api_key = X"}

\* the texts of at most n lines, each line ended by a newline
RECURSIVE LinesTexts(_)
LinesTexts(n) ==
    IF n = 0 THEN {""}
    ELSE LET shorter == LinesTexts(n - 1)
         IN  shorter \cup {t \o line \o "\n" : t \in shorter, line \in ConfigLines}

ConfigDisks ==
    {BaseDisk}
    \cup {Put(BaseDisk, DiffConfigPath, OtherNode(k)) : k \in {"noperm", "dir", "dangling"}}
    \cup {Put(BaseDisk, DiffConfigPath, FileNode(t)) : t \in LinesTexts(MaxLines)}

InitConfig ==
    /\ disk \in ConfigDisks
    /\ environ = HomeEnv("")
    /\ server = PlainServer(<<>>)
    /\ CurrentProfile = ""
    /\ call = NoCall
    /\ compares = <<>>
    /\ requests = <<>>

CallEnsureConfigFile ==
    LET Ensured(e) ==
            /\ call' = [op |-> "EnsureConfigFile", err |-> e.err, out |-> NoOutput]
            /\ disk' = e.disk
            /\ UNCHANGED <<environ, server, CurrentProfile, compares, requests>>
    IN  Ensured(EnsureConfigFile(disk, ConfigPath(environ)))

CallLoadConfig ==
    LET Loaded(l) ==
            /\ call' = [op |-> "LoadConfig", err |-> l.err, out |-> NoOutput,
                        config |-> l.config]
            /\ disk' = l.disk
            /\ UNCHANGED <<environ, server, CurrentProfile, compares, requests>>
    IN  Loaded(LoadConfig(disk, ConfigPath(environ)))

NextConfig == CallEnsureConfigFile \/ CallLoadConfig

SpecConfig == InitConfig /\ [][NextConfig]_vars

----------------------------------------------------------------------------
(* SpecSave: get, dump, diff all and diff query run one after another with *)
(* a complete config file of two profiles, against servers whose queries   *)
(* have distinct ids, as those of a Redash server have, and texts that are *)
(* empty or begin and end with white space.                                *)

SaveArgs == {"3", "+3", "abc"}

\* the default profile's directory /sql is there or not; 3.sql is absent, a
\* file or a directory in the directory the default profile resolves to
SaveDisks ==
    LET based == Put(Put(BaseDisk, DiffConfigPath, FileNode(TwoProfiles)), "/stg", OtherNode("dir"))
        dirs == {based, Put(based, "/sql", OtherNode("dir"))}
        Local(d) == IF "/sql" \in DOMAIN d THEN "/sql/3.sql" ELSE "3.sql"
    IN  dirs \cup {Put(d, Local(d), node) : d \in dirs,
                                             node \in {FileNode("a"), OtherNode("dir")}}

SaveQueries == <<Query(3, "q3", " a\n"), Query(7, "q7", "")>>

\* the servers: none, one or two queries in one page or in pages of one, and
\* a server that answers the second request with status 500
SaveServers ==
    {PlainServer(<<>>), PlainServer(<<Query(3, "q3", "b")>>), PlainServer(SaveQueries),
     [PlainServer(SaveQueries) EXCEPT !.pageLen = 1],
     [PlainServer(SaveQueries) EXCEPT
         !.pageLen = 1,
         !.fault = [at |-> 2, neterr |-> FALSE, status |-> 500, raw |-> "Internal Server Error"]]}

InitSave ==
    /\ disk \in SaveDisks
    /\ environ \in {HomeEnv(e) : e \in CommandProfiles}
    /\ server \in SaveServers
    /\ CurrentProfile = ""
    /\ call = NoCall
    /\ compares = <<>>
    /\ requests = <<>>

RunGet ==
    \E profile \in CommandProfiles, arg \in SaveArgs :
        Ran("get", profile, arg, Get(disk, environ, server, profile, arg))

RunDump ==
    \E profile \in CommandProfiles :
        Ran("dump", profile, "", Dump(disk, environ, server, DumpTimestamp))

RunDiffQuery ==
    \E profile \in CommandProfiles, arg \in SaveArgs :
        Ran("diff query", profile, arg, DiffQuery(disk, environ, server, profile, arg))

NextSave == RunGet \/ RunDump \/ CmdDiffAll(CommandProfiles) \/ RunDiffQuery

SpecSave == InitSave /\ [][NextSave]_vars

----------------------------------------------------------------------------
(* SpecConfigList: config list run with and without the --profile flag,    *)
(* over config files of one to three profiles whose fields are set and     *)
(* empty, with the map of profiles iterated in any order.                  *)

ListKeys == {"", "K1", "K2"}

ListSQLDirs == {"", "/sql", "/nodir"}

\* a section of a config file
SectionText(header, pc) ==
    header \o "\nredash_url = " \o pc.RedashURL \o "\napi_key = " \o pc.APIKey
    \o "\nsql_dir = " \o pc.SQLDir \o "\n"

\* the config file that holds these profiles
ConfigText(config) ==
    SectionText("[default]", config["default"])
    \o (IF "stg" \in DOMAIN config THEN SectionText("[profile stg]", config["stg"]) ELSE "")
    \o (IF "prod" \in DOMAIN config THEN SectionText("[profile prod]", config["prod"]) ELSE "")

ListDefaults == [RedashURL : {"http://r/api"}, APIKey : ListKeys, SQLDir : ListSQLDirs]

ListStgs == [RedashURL : {"http://s/api"}, APIKey : {"", "K2"}, SQLDir : {"/stg"}]

ListProds == [RedashURL : {"http://p/api"}, APIKey : {"K1"}, SQLDir : {""}]

ListConfigs ==
    LET one == {[n \in {"default"} |-> pc] : pc \in ListDefaults}
        two == one \cup {Store(c, "stg", pc) : c \in one, pc \in ListStgs}
    IN  two \cup {Store(c, "prod", pc) : c \in two, pc \in ListProds}

\* the disks: /sql is a directory; the config file is absent, unreadable, or
\* the text of one of the configs
ListDisks ==
    LET based == Put(BaseDisk, "/sql", OtherNode("dir"))
    IN  {based, Put(based, DiffConfigPath, OtherNode("noperm"))}
        \cup {Put(based, DiffConfigPath, FileNode(ConfigText(c))) : c \in ListConfigs}

ListFlags == {"", "default", "stg", "nosuch"}

\* the orders in which the keys of the map of profiles may come
ProfileOrders ==
    {<<"default", "stg", "prod">>, <<"default", "prod", "stg">>,
     <<"stg", "default", "prod">>, <<"stg", "prod", "default">>,
     <<"prod", "default", "stg">>, <<"prod", "stg", "default">>}

InitConfigList ==
    /\ disk \in ListDisks
    /\ environ \in {HomeEnv(e) : e \in {"", "stg"}}
    /\ server = PlainServer(<<>>)
    /\ CurrentProfile = ""
    /\ call = NoCall
    /\ compares = <<>>
    /\ requests = <<>>

CmdConfigList ==
    \E profile \in ListFlags, order \in ProfileOrders :
        LET Listed(o) ==
                /\ call' = [op |-> "config list", profile |-> profile, order |-> order,
                            err |-> o.err, out |-> [printed |-> o.lines # <<>>, lines |-> o.lines],
                            loaded |-> Exists(disk, ConfigPath(environ))]
                /\ disk' = o.disk
                /\ UNCHANGED <<environ, server, CurrentProfile, compares, requests>>
        IN  Listed(ConfigList(disk, environ, profile, order))

NextConfigList == CmdConfigList

SpecConfigList == InitConfigList /\ [][NextConfigList]_vars

----------------------------------------------------------------------------
(* SpecClient: ListQueries and GetQuery called on a client of a server     *)
(* that holds at most MaxQueries queries, serves them in pages of one, of  *)
(* two or of the page size asked for, reports a total that is smaller     *)
(* than, equal to or larger than what it holds, and may answer its first   *)
(* or its second request with a fault.                                     *)

MaxQueries == 3     \* the most queries the server holds under SpecClient

\* the faults: a transport failure, two non-200 statuses (one with a body
\* that is JSON), and three 200 responses whose body is not JSON: an HTML
\* page, an HTML page after a newline, and plain text
ClientFaults ==
    {[neterr |-> TRUE, status |-> 0, raw |-> ""],
     [neterr |-> FALSE, status |-> 500, raw |-> "Internal Server Error"],
     [neterr |-> FALSE, status |-> 401, raw |-> "{\"message\": \"unauthorized\"}"],
     [neterr |-> FALSE, status |-> 200, raw |-> "<html>login</html>"],
     [neterr |-> FALSE, status |-> 200, raw |-> "\n<html>login</html>"],
     [neterr |-> FALSE, status |-> 200, raw |-> "not json"]}

FaultAt(f, n) == [at |-> n, neterr |-> f.neterr, status |-> f.status, raw |-> f.raw]

ClientServers ==
    {[queries |-> [i \in 1..n |-> Query(i, "q", "s")], pageLen |-> l, count |-> k, fault |-> f] :
        n \in 0..MaxQueries, l \in {1, 2, PageSize}, k \in 0..(MaxQueries + 1),
        f \in {NoFault} \cup {FaultAt(g, at) : g \in ClientFaults, at \in 1..2}}

TheClient == [ok |-> TRUE, baseURL |-> "http://r/api", apiKey |-> "K", profile |-> "default"]

InitClient ==
    /\ disk = BaseDisk
    /\ environ = HomeEnv("")
    /\ server \in ClientServers
    /\ CurrentProfile = ""
    /\ call = NoCall
    /\ compares = <<>>
    /\ requests = <<>>

CallListQueries ==
    LET Listed(l) ==
            /\ call' = [op |-> "ListQueries", err |-> l.err, out |-> NoOutput,
                        queries |-> l.queries]
            /\ requests' = l.requests
            /\ UNCHANGED <<disk, environ, server, CurrentProfile, compares>>
    IN  Listed(ListQueries(TheClient, server, <<>>))

CallGetQuery ==
    \E id \in {1, MaxQueries + 2} :
        LET Got(g) ==
                /\ call' = [op |-> "GetQuery", err |-> g.err, out |-> NoOutput,
                            id |-> id, found |-> g.found]
                /\ requests' = g.requests
                /\ UNCHANGED <<disk, environ, server, CurrentProfile, compares>>
        IN  Got(GetQuery(TheClient, server, <<>>, id))

NextClient == CallListQueries \/ CallGetQuery

SpecClient == InitClient /\ [][NextClient]_vars

\* the text between the first and the last character of s that is not white
\* space, "" when there is none
Core(s) ==
    LET solid == {i \in 1..Len(s) : ~IsSpace(Ch(s, i))}
    IN  IF solid = {} THEN ""
        ELSE SubSeq(s, CHOOSE i \in solid : \A j \in solid : i <= j,
                       CHOOSE i \in solid : \A j \in solid : j <= i)

\* the path is an existing regular file the process can read
ReadableFile(path) == path \in DOMAIN disk /\ disk[path].kind = "file"

\* the path is an existing regular file, readable or not
RegularFile(path) == path \in DOMAIN disk /\ disk[path].kind \in {"file", "noperm"}

\* C1: for a readable regular local file and a present remote query,
\* CompareQueryWithLocal returns no error, and MATCH exactly when the local
\* content and the remote text are equal once leading and trailing white
\* space is removed from both, DIFFERENT otherwise.
C1_MatchIffTrimmedEqual ==
    \A i \in 1..Len(compares) :
        LET c == compares[i]
        IN  (Len(c.redashQuery) = 1 /\ ReadableFile(c.localPath)) =>
                /\ c.err = ""
                /\ c.result.Status =
                       IF Core(disk[c.localPath].content) = Core(c.redashQuery[1].Query)
                           THEN "MATCH" ELSE "DIFFERENT"

\* C1's case: texts that differ, in white space only, were found to MATCH
C1_Witness ==
    \E i \in 1..Len(compares) :
        /\ Len(compares[i].redashQuery) = 1
        /\ ReadableFile(compares[i].localPath)
        /\ disk[compares[i].localPath].content # compares[i].redashQuery[1].Query
        /\ Len(Core(compares[i].redashQuery[1].Query)) > 0
        /\ compares[i].result.Status = "MATCH"

\* C3: whenever localPath is not an existing regular file (it is missing, a
\* directory, or a link to one or to nothing), CompareQueryWithLocal returns
\* an error and a result whose status is unset, with the remote query
\* present or absent.
C3_NoRegularFileIsError ==
    \A i \in 1..Len(compares) :
        ~RegularFile(compares[i].localPath) =>
            compares[i].err # "" /\ compares[i].result.Status = ""

\* C3's case: the remote query absent and the local path a directory
C3_Witness ==
    \E i \in 1..Len(compares) :
        /\ Len(compares[i].redashQuery) = 0
        /\ compares[i].localPath \in DOMAIN disk
        /\ disk[compares[i].localPath].kind = "dir"
        /\ compares[i].err # ""
        /\ compares[i].result.Status = ""

----------------------------------------------------------------------------
(* diff all: what was printed, and what the directory held.                *)

\* diff all ran to its end and printed its summary
Printed == call.op = "diff all" /\ call.out.printed

\* the results with a status, in the summary that was printed
WithStatus(status) ==
    {i \in 1..Len(call.out.summary.Results) : call.out.summary.Results[i].Status = status}

\* name is a decimal integer, with or without a sign, followed by ".sql"
IsIntegerSql(name) ==
    \E sign \in {"", "+", "-"} :
        \E n \in 1..(Len(name) - Len(sign) - 4) :
            /\ Len(name) = Len(sign) + n + 4
            /\ SubSeq(name, 1, Len(sign)) = sign
            /\ \A i \in (Len(sign) + 1)..(Len(sign) + n) :
                   SubSeq(name, i, i) \in {"0", "1", "2", "3", "4", "5", "6", "7", "8", "9"}
            /\ SubSeq(name, Len(sign) + n + 1, Len(name)) = ".sql"

\* the path of entry name of directory dir
EntryPath(dir, name) == IF dir = "." THEN name ELSE dir \o "/" \o name

\* the entries of dir that are not subdirectories and are named <integer>.sql
EligiblePaths(dir) ==
    {EntryPath(dir, name) :
        name \in {n \in DirNames : /\ EntryPath(dir, n) \in DOMAIN disk
                                   /\ disk[EntryPath(dir, n)].kind # "dir"
                                   /\ IsIntegerSql(n)}}

\* C2, as the specification states it: every comparison against an absent
\* remote query returns no error and the status MISSING_IN_REDASH.
C2_NilAlwaysMissing ==
    \A i \in 1..Len(compares) :
        Len(compares[i].redashQuery) = 0 =>
            compares[i].err = "" /\ compares[i].result.Status = "MISSING_IN_REDASH"

\* C2, as the code has it: a comparison against an absent remote query
\* returns no error and the status MISSING_IN_REDASH when the local path is a
\* regular file that can be read, and whatever the local path is it never
\* returns MATCH or DIFFERENT.
C2_NilOnReadableFileIsMissing ==
    \A i \in 1..Len(compares) :
        Len(compares[i].redashQuery) = 0 =>
            /\ compares[i].result.Status \notin {"MATCH", "DIFFERENT"}
            /\ ReadableFile(compares[i].localPath) =>
                   compares[i].err = "" /\ compares[i].result.Status = "MISSING_IN_REDASH"

\* C2's case: a readable local file whose query the server does not hold
C2_Witness ==
    \E i \in 1..Len(compares) :
        /\ Len(compares[i].redashQuery) = 0
        /\ ReadableFile(compares[i].localPath)
        /\ compares[i].result.Status = "MISSING_IN_REDASH"

\* C4: in the summary diff all prints, the counters matches, differences and
\* missing_in_redash are the numbers of results with status MATCH, DIFFERENT
\* and MISSING_IN_REDASH, so that their sum is the number of results less the
\* number of ERROR results.
C4_CountersCountStatuses ==
    Printed =>
        /\ call.out.summary.Matches = Cardinality(WithStatus("MATCH"))
        /\ call.out.summary.Differences = Cardinality(WithStatus("DIFFERENT"))
        /\ call.out.summary.MissingInRedash = Cardinality(WithStatus("MISSING_IN_REDASH"))
        /\ call.out.summary.Matches + call.out.summary.Differences
               + call.out.summary.MissingInRedash
           = Len(call.out.summary.Results) - Cardinality(WithStatus("ERROR"))

\* C4's case: a summary with an ERROR result and a counted one
C4_Witness ==
    /\ Printed
    /\ WithStatus("ERROR") # {}
    /\ call.out.summary.Matches + call.out.summary.Differences
           + call.out.summary.MissingInRedash > 0

\* C5: when a comparison of diff all fails, its result is in the summary with
\* status ERROR and the error as its message, every entry of the directory
\* named <integer>.sql is compared all the same, and the command prints the
\* summary and succeeds.
C5_FailedEntryDoesNotAbort ==
    (call.op = "diff all" /\ \E i \in 1..Len(compares) : compares[i].err # "") =>
        /\ call.err = ""
        /\ Printed
        /\ Len(call.out.summary.Results) = Len(compares)
        /\ \A i \in 1..Len(compares) :
               compares[i].err # "" =>
                   /\ call.out.summary.Results[i].LocalPath = compares[i].localPath
                   /\ call.out.summary.Results[i].Status = "ERROR"
                   /\ call.out.summary.Results[i].ErrorMessage = compares[i].err
                   /\ call.out.summary.Results[i].ErrorMessage # ""
        /\ \A path \in EligiblePaths(call.out.summary.SQLDirectory) :
               \E j \in 1..Len(compares) : compares[j].localPath = path

\* C5's case: a comparison failed and a later entry was compared with success
C5_Witness ==
    /\ Printed
    /\ \E i \in 1..Len(compares) :
           /\ compares[i].err # ""
           /\ \E j \in (i + 1)..Len(compares) : compares[j].err = ""

\* C6: diff all's results are, one each, the entries of the directory that are
\* not subdirectories and are named <integer>.sql; no other entry has a
\* result, and none makes the command fail.
C6_OneResultPerIntegerSql ==
    Printed =>
        /\ call.err = ""
        /\ {call.out.summary.Results[i].LocalPath : i \in 1..Len(call.out.summary.Results)}
           = EligiblePaths(call.out.summary.SQLDirectory)
        /\ Len(call.out.summary.Results)
           = Cardinality(EligiblePaths(call.out.summary.SQLDirectory))

\* C6's case: 3.sql and abc.sql in the directory, one result, for 3.sql
C6_Witness ==
    /\ Printed
    /\ EntryPath(call.out.summary.SQLDirectory, "abc.sql") \in DOMAIN disk
    /\ disk[EntryPath(call.out.summary.SQLDirectory, "abc.sql")].kind = "file"
    /\ Len(call.out.summary.Results) = 1
    /\ call.out.summary.Results[1].LocalPath = EntryPath(call.out.summary.SQLDirectory, "3.sql")

----------------------------------------------------------------------------
(* The profile functions and the client's creation.                        *)

\* the first of the requested name, REDRIP_PROFILE and "default" that is not empty
Wanted(requested) ==
    LET names == <<requested, environ.REDRIP_PROFILE, "default">>
    IN  names[CHOOSE i \in 1..3 : names[i] # "" /\ \A j \in 1..(i - 1) : names[j] = ""]

\* the profile of config the precedence leads to, "default" for a name config lacks
Resolved(config, requested) ==
    IF Wanted(requested) \in DOMAIN config THEN Wanted(requested) ELSE "default"

\* C7: GetProfileConfig returns, with no failure, the profile named by the
\* first non-empty of the requested name, REDRIP_PROFILE and "default", and
\* records that name in CurrentProfile; for a name the config lacks it returns
\* the default profile and records "default".
C7_ProfilePrecedence ==
    call.op = "GetProfileConfig" =>
        /\ call.err = ""
        /\ call.pc = call.config[Resolved(call.config, call.profile)]
        /\ CurrentProfile = Resolved(call.config, call.profile)
        /\ Wanted(call.profile) \notin DOMAIN call.config =>
               call.pc = call.config["default"] /\ CurrentProfile = "default"

\* C7's case: no name requested, REDRIP_PROFILE names a profile of the config
\* that differs from the default one, and that profile is returned
C7_Witness ==
    /\ call.op = "GetProfileConfig"
    /\ call.profile = ""
    /\ environ.REDRIP_PROFILE = "stg"
    /\ "stg" \in DOMAIN call.config
    /\ call.config["stg"] # call.config["default"]
    /\ call.pc = call.config["stg"]
    /\ CurrentProfile = "stg"

\* the list of its empty required fields ValidateProfileConfig is to report
ExpectedMissing(pc) ==
    IF pc.RedashURL = "" /\ pc.APIKey = "" THEN "redash_url, api_key"
    ELSE IF pc.RedashURL = "" THEN "redash_url"
    ELSE IF pc.APIKey = "" THEN "api_key"
    ELSE ""

\* C8: ValidateProfileConfig returns an error exactly when redash_url or
\* api_key is empty; the error lists the empty ones, redash_url first, and
\* nothing else, and sql_dir has no part in it.
C8_ValidateNamesEmptyFields ==
    call.op = "ValidateProfileConfig" =>
        /\ (call.err # "") = (call.pc.RedashURL = "" \/ call.pc.APIKey = "")
        /\ call.err # "" =>
               call.err = "required configuration values not found: "
                          \o ExpectedMissing(call.pc)

\* C8's case: both fields empty and sql_dir set
C8_Witness ==
    /\ call.op = "ValidateProfileConfig"
    /\ call.pc.RedashURL = ""
    /\ call.pc.APIKey = ""
    /\ call.pc.SQLDir # ""
    /\ call.err = "required configuration values not found: redash_url, api_key"

\* the profiles of the config file as it is on the disk
DiskConfig == ParseConfig(disk[ConfigPath(environ)].content)

\* path is a directory, or a link to one
DirectoryOnDisk(path) == path \in DOMAIN disk /\ disk[path].kind \in {"dir", "linkdir"}

\* C10: with the config file loaded, GetProfileSQLDir returns no error, and
\* returns "." when the sql_dir of the resolved profile is empty or is not a
\* directory on the disk, a regular file included, and sql_dir as configured
\* otherwise.
C10_SQLDirFallsBackToCurrent ==
    (call.op = "GetProfileSQLDir" /\ ReadableFile(ConfigPath(environ))) =>
        LET sqlDir == DiskConfig[Resolved(DiskConfig, call.profile)].SQLDir
        IN  /\ call.err = ""
            /\ call.dir = IF sqlDir = "" \/ ~DirectoryOnDisk(sqlDir) THEN "." ELSE sqlDir

\* C10's case: sql_dir names a regular file and "." is returned
C10_Witness ==
    /\ call.op = "GetProfileSQLDir"
    /\ ReadableFile(ConfigPath(environ))
    /\ DiskConfig[Resolved(DiskConfig, call.profile)].SQLDir = "/sql"
    /\ ReadableFile("/sql")
    /\ call.dir = "."
    /\ call.err = ""

\* the command's argument is a decimal integer, for the commands that take one
ArgParses == call.op \in {"get", "diff query"} => IsIntegerSql(call.arg \o ".sql")

\* the name the command asks the client for: list and dump ask for none
Requested == IF call.op \in {"list", "dump"} THEN "" ELSE call.profile

\* the profile the command's client is created for
CommandProfile == DiskConfig[Resolved(DiskConfig, Requested)]

\* every request sent by the last command went to the URL, and with the key,
\* of a profile that has both
RequestsValidated ==
    requests # <<>> =>
        /\ ReadableFile(ConfigPath(environ))
        /\ CommandProfile.RedashURL # ""
        /\ CommandProfile.APIKey # ""
        /\ \A i \in 1..Len(requests) :
               /\ HasPrefix(requests[i].url, CommandProfile.RedashURL)
               /\ requests[i].auth = "Key " \o CommandProfile.APIKey

\* a command whose profile lacks a required field stops at the client's
\* creation, with the validation's error and no request
MissingFieldsAbort ==
    (/\ call.op \in {"list", "get", "dump", "diff all", "diff query"}
     /\ ArgParses
     /\ ReadableFile(ConfigPath(environ))
     /\ (CommandProfile.RedashURL = "" \/ CommandProfile.APIKey = "")) =>
        /\ requests = <<>>
        /\ call.err = "failed to initialize Redash client: cannot create Redash client for profile '"
                      \o Resolved(DiskConfig, Requested) \o "': "
                      \o "required configuration values not found: "
                      \o ExpectedMissing(CommandProfile)

\* a command run with no config file creates it with the default content and
\* stops with an error that names redash_url and api_key
FirstRunAborts ==
    (ConfigPath(environ) \notin DOMAIN disk /\ ArgParses') =>
        /\ ConfigPath(environ) \in DOMAIN disk'
        /\ disk'[ConfigPath(environ)] = FileNode(DefaultConfigContent)
        /\ requests' = <<>>
        /\ call'.err # ""
        /\ Contains(call'.err, "required configuration values not found: redash_url, api_key")

\* C9: no command sends a request unless the profile it resolved has a
\* redash_url and an api_key: a config that lacks one is loaded, and the
\* command stops at the client's creation with no request sent; on a first
\* run the config file is created and the command stops naming both fields.
C9_NoRequestBeforeValidation ==
    /\ [](RequestsValidated /\ MissingFieldsAbort)
    /\ [][FirstRunAborts]_vars

\* C9's case: a profile with a URL and no key, and a command stopped before
\* any request
C9_Witness ==
    /\ call.op = "diff all"
    /\ ReadableFile(ConfigPath(environ))
    /\ CommandProfile.RedashURL # ""
    /\ CommandProfile.APIKey = ""
    /\ requests = <<>>
    /\ Contains(call.err, "required configuration values not found: api_key")

----------------------------------------------------------------------------
(* LoadConfig: what each line of ConfigLines is to mean.                   *)

\* a line read as the config format reads it: kind is "key" (with the key
\* and the value it sets), "header" (with the profile it selects),
\* "badheader", "noeq" or "comment"; eqs is the number of "=" in a line that
\* is neither a header nor a comment
Meaning(kind, key, value, name, eqs) ==
    [kind |-> kind, key |-> key, value |-> value, name |-> name, eqs |-> eqs]

LineMeaning(line) ==
    CASE line = "redash_url = http://r/api" -> Meaning("key", "redash_url", "http://r/api", "", 1)
      [] line = " api_key =  K " -> Meaning("key", "api_key", "K", "", 1)
      [] line = "sql_dir = a=b" -> Meaning("key", "sql_dir", "a=b", "", 2)
      [] line = "[default]" -> Meaning("header", "", "", "default", 0)
      [] line = "[profile stg]" -> Meaning("header", "", "", "stg", 0)
      [] line = "[stg]" -> Meaning("badheader", "", "", "stg", 0)
      [] line = "novalue" -> Meaning("noeq", "", "", "", 0)
      [] line = "# api_key = X" -> Meaning("comment", "", "", "", 0)

\* the lines of a text made of lines of ConfigLines, as their meanings
RECURSIVE Meanings(_)
Meanings(text) ==
    IF text = "" THEN <<>>
    ELSE LET line == CHOOSE l \in ConfigLines :
                         /\ Len(text) > Len(l)
                         /\ SubSeq(text, 1, Len(l) + 1) = l \o "\n"
         IN  <<LineMeaning(line)>> \o Meanings(SubSeq(text, Len(line) + 2, Len(text)))

\* the lines of ms whose kind is not in kinds
RECURSIVE Without(_, _)
Without(ms, kinds) ==
    IF ms = <<>> THEN <<>>
    ELSE (IF Head(ms).kind \in kinds THEN <<>> ELSE <<Head(ms)>>) \o Without(Tail(ms), kinds)

\* the lines of ms that are not a key line with more than one "="
RECURSIVE WithoutManyEq(_)
WithoutManyEq(ms) ==
    IF ms = <<>> THEN <<>>
    ELSE (IF Head(ms).eqs > 1 THEN <<>> ELSE <<Head(ms)>>) \o WithoutManyEq(Tail(ms))

\* the profile line i of ms belongs to: that of the last header before it,
\* "default" when there is none
SectionAt(ms, i) ==
    LET hs == {j \in 1..(i - 1) : ms[j].kind = "header"}
    IN  IF hs = {} THEN "default"
        ELSE ms[CHOOSE j \in hs : \A k \in hs : k <= j].name

\* the value of key in profile p: that of the last key line for it in p's
\* sections, "" when there is none
FieldValue(ms, p, key) ==
    LET ls == {i \in 1..Len(ms) : ms[i].kind = "key" /\ ms[i].key = key /\ SectionAt(ms, i) = p}
    IN  IF ls = {} THEN ""
        ELSE ms[CHOOSE i \in ls : \A k \in ls : k <= i].value

\* config holds, for each of its profiles, the values the lines ms give it,
\* and holds every profile the lines ms select or set
Holds(config, ms) ==
    /\ \A p \in DOMAIN config :
           /\ config[p].RedashURL = FieldValue(ms, p, "redash_url")
           /\ config[p].APIKey = FieldValue(ms, p, "api_key")
           /\ config[p].SQLDir = FieldValue(ms, p, "sql_dir")
    /\ \A i \in 1..Len(ms) :
           ms[i].kind = "key" => SectionAt(ms, i) \in DOMAIN config
    /\ \A i \in 1..Len(ms) :
           ms[i].kind = "header" => ms[i].name \in DOMAIN config

\* LoadConfig returned a Config
ConfigLoaded == call.op = "LoadConfig" /\ call.err = ""

\* the lines of the config file on the disk
FileLines == Meanings(disk[ConfigPath(environ)].content)

\* the config file on the disk is one of SpecConfig's texts, not the default content
LinesFile ==
    /\ ReadableFile(ConfigPath(environ))
    /\ disk[ConfigPath(environ)].content # DefaultConfigContent

\* C11: the Config a successful LoadConfig returns has a profile "default";
\* when the file has no [default] header and no key line before its first
\* header, that profile has its three fields empty.
C11_DefaultProfilePresent ==
    ConfigLoaded =>
        /\ "default" \in DOMAIN call.config
        /\ (/\ LinesFile
            /\ \A i \in 1..Len(FileLines) :
                   /\ FileLines[i].kind = "header" => FileLines[i].name # "default"
                   /\ FileLines[i].kind = "key" => SectionAt(FileLines, i) # "default") =>
               call.config["default"] = [RedashURL |-> "", APIKey |-> "", SQLDir |-> ""]

\* C11's case: a file with a [profile stg] section and nothing for default
C11_Witness ==
    /\ ConfigLoaded
    /\ LinesFile
    /\ Len(FileLines) > 0
    /\ FileLines[1].kind = "header"
    /\ \A i \in 1..Len(FileLines) : FileLines[i].kind = "header" => FileLines[i].name = "stg"
    /\ call.config["default"] = [RedashURL |-> "", APIKey |-> "", SQLDir |-> ""]
    /\ "stg" \in DOMAIN call.config

\* C12: the Config LoadConfig returns gives each profile the trimmed values of
\* the key lines of its sections: a key line before any header belongs to
\* "default", a later one to the profile of the last valid header before it.
C12_KeyLinesGoToCurrentSection ==
    (ConfigLoaded /\ LinesFile) => Holds(call.config, FileLines)

\* C12's case: a flat file, whose key line with white space around its value
\* set api_key of the default profile
C12_Witness ==
    /\ ConfigLoaded
    /\ LinesFile
    /\ \A i \in 1..Len(FileLines) : FileLines[i].kind = "key"
    /\ \E i \in 1..Len(FileLines) : FileLines[i].key = "api_key"
    /\ call.config["default"].APIKey = "K"

\* C13, as the specification states it: a line that is neither a comment nor
\* a header and has no "=" or more than one changes nothing in the Config.
C13_NotExactlyOneEqSkipped ==
    (ConfigLoaded /\ LinesFile) => Holds(call.config, WithoutManyEq(Without(FileLines, {"noeq"})))

\* C13, as the code has it: a line that is neither a comment nor a header and
\* has no "=" changes nothing in the Config; a line with more than one "=" is
\* a key line, split at the first "=", whose value holds the others.
C13_NoEqSkipped ==
    (ConfigLoaded /\ LinesFile) =>
        /\ Holds(call.config, Without(FileLines, {"noeq"}))
        /\ \A p \in DOMAIN call.config :
               (\E i \in 1..Len(FileLines) :
                    /\ FileLines[i].eqs > 1
                    /\ SectionAt(FileLines, i) = p
                    /\ \A j \in (i + 1)..Len(FileLines) :
                           FileLines[j].kind = "key" => FileLines[j].key # FileLines[i].key) =>
                   call.config[p].SQLDir = "a=b"

\* C13's case: a line with no "=" between two key lines, both of which are in
\* the Config
C13_Witness ==
    /\ ConfigLoaded
    /\ LinesFile
    /\ Len(FileLines) = 3
    /\ FileLines[1].kind = "key"
    /\ FileLines[2].kind = "noeq"
    /\ FileLines[3].kind = "key"
    /\ FileLines[3].eqs = 2
    /\ call.config["default"].SQLDir = "a=b"

\* C14: a bracketed line that is neither [default] nor [profile <name>] adds
\* no profile to the Config and selects none: the Config is the one of the
\* file without that line.
C14_InvalidHeaderIgnored ==
    (ConfigLoaded /\ LinesFile) =>
        /\ DOMAIN call.config \subseteq
               {"default"} \cup {FileLines[i].name :
                                    i \in {j \in 1..Len(FileLines) : FileLines[j].kind = "header"}}
        /\ Holds(call.config, Without(FileLines, {"badheader"}))

\* C14's case: [profile stg], then [stg], then a key line that went to stg
C14_Witness ==
    /\ ConfigLoaded
    /\ LinesFile
    /\ Len(FileLines) = 3
    /\ FileLines[1].kind = "header"
    /\ FileLines[1].name = "stg"
    /\ FileLines[2].kind = "badheader"
    /\ FileLines[3].key = "redash_url"
    /\ call.config["stg"].RedashURL = "http://r/api"
    /\ call.config["default"].RedashURL = ""

\* a call on a config path that exists leaves the disk as it is; a call on
\* one that does not exist leaves the default content there
ExistingFileKept ==
    IF ConfigPath(environ) \in DOMAIN disk /\ disk[ConfigPath(environ)].kind # "dangling"
        THEN disk' = disk
    ELSE /\ DOMAIN disk' = DOMAIN disk \cup {ConfigPath(environ)}
         /\ disk'[ConfigPath(environ)] = [kind |-> "file", content |-> DefaultConfigContent]
         /\ \A p \in DOMAIN disk \ {ConfigPath(environ)} : disk'[p] = disk[p]

\* a LoadConfig after a successful LoadConfig returns the same Config
SecondParseSame ==
    (ConfigLoaded /\ call'.op = "LoadConfig") => (call'.err = "" /\ call'.config = call.config)

\* C15: EnsureConfigFile and LoadConfig write the config file, with the
\* default content, only when the path does not exist; on an existing path no
\* sequence of the two changes the file, and a second LoadConfig returns the
\* Config of the first.
C15_ExistingFileNeverRewritten == [][ExistingFileKept /\ SecondParseSame]_vars

\* C15's case: LoadConfig ran on a file that is not the default one, and the
\* file is as it was written
C15_Witness ==
    /\ ConfigLoaded
    /\ LinesFile
    /\ Len(FileLines) = 3
    /\ call.config["default"].RedashURL = "http://r/api"
    /\ call.config["default"].APIKey = "K"

----------------------------------------------------------------------------
(* The client's requests and results under SpecClient.                     *)

\* the request the client is to send for page i of the listing
PageRequest(i) ==
    [url |-> "http://r/api/queries?page=" \o SubSeq("123456789", i, i) \o "&page_size=100",
     auth |-> "Key K"]

\* what the server answered to the i-th request of a listing, the one for page i
ServedPage(i) == ListResponse(server, i, i, PageSize)

\* the results of the first k pages, one after the other
RECURSIVE PagesUpTo(_)
PagesUpTo(k) == IF k = 0 THEN <<>> ELSE PagesUpTo(k - 1) \o ServedPage(k).results

ListedOK == call.op = "ListQueries" /\ call.err = ""

\* C16: a successful ListQueries asked for pages 1, 2, ... in order with page
\* size 100 and returns their results one after the other; every page but the
\* last was not empty and left the number of results below the total its
\* response reported, the last page was empty or reached that total; a
\* reported total of 0 ends the listing after the first page
C16_ListQueriesPaginates ==
    ListedOK =>
        LET k == Len(requests)
        IN  /\ k >= 1
            /\ \A i \in 1..k : requests[i] = PageRequest(i)
            /\ call.queries = PagesUpTo(k)
            /\ \A i \in 1..(k - 1) :
                   /\ Len(ServedPage(i).results) > 0
                   /\ Len(PagesUpTo(i)) < ServedPage(i).count
            /\ \/ Len(ServedPage(k).results) = 0
               \/ Len(PagesUpTo(k)) >= ServedPage(k).count
            /\ server.count = 0 => k = 1

\* three pages of one query each were fetched and returned
C16_Witness ==
    /\ ListedOK
    /\ Len(requests) = 3
    /\ Len(call.queries) = 3
    /\ server.pageLen = 1

\* the responses the last call of the client received, in the order of its requests
Received ==
    IF call.op = "ListQueries" THEN [i \in 1..Len(requests) |-> ServedPage(i)]
    ELSE IF call.op = "GetQuery" THEN <<GetResponse(server, 1, call.id)>>
    ELSE <<>>

\* a response that came back with a status other than 200, or with status 200
\* and a body that does not decode
Refused(r) == ~r.neterr /\ (r.status # 200 \/ ~r.valid)

\* the body is an HTML document: its first character that is not white space
\* opens a tag
HTMLBody(body) == HasPrefix(Core(body), "<")

\* the call returned no query data
NoData ==
    /\ call.op = "ListQueries" => call.queries = <<>>
    /\ call.op = "GetQuery" => call.found = <<>>

RawDecodeFailure(err) == HasPrefix(err, "failed to unmarshal response")

\* C17: when a response of ListQueries or GetQuery has a status other than 200,
\* or status 200 and a body that is HTML or otherwise not JSON, the call returns
\* an error and no query data, no partial list included, and for an HTML body
\* the error is not the raw decode failure
C17_RefusedResponseIsDistinguishableError ==
    \A i \in DOMAIN Received :
        Refused(Received[i]) =>
            /\ call.err # ""
            /\ NoData
            /\ (Received[i].status = 200 /\ HTMLBody(Received[i].raw))
                   => ~RawDecodeFailure(call.err)

\* what the client does keep: an error and no data for every refused response,
\* and an error other than the raw decode failure for a body whose first byte
\* is "<"
RefusedResponseIsError ==
    \A i \in DOMAIN Received :
        Refused(Received[i]) =>
            /\ call.err # ""
            /\ NoData
            /\ (Received[i].status = 200 /\ HasPrefix(Received[i].raw, "<"))
                   => ~RawDecodeFailure(call.err)

\* a listing whose first page was served and whose second request was refused
SecondPageRefused ==
    /\ call.op = "ListQueries"
    /\ Len(requests) = 2
    /\ Len(ServedPage(1).results) > 0
    /\ Refused(Received[2])
    /\ call.err # ""

----------------------------------------------------------------------------
(* The commands' remote fetch under Spec.                                  *)

\* the response to the last request of the command that ran last; the only
\* argument of get and diff query that parses is 3
FetchResponse ==
    IF call.op \in {"get", "diff query"} THEN GetResponse(server, 1, 3)
    ELSE ListResponse(server, Len(requests), Len(requests), PageSize)

Fetching == call.op \in {"list", "get", "dump", "diff all", "diff query"} /\ requests # <<>>

\* the fetch failed: in transport, with a status other than 200, or with a
\* body that does not decode
FetchFailed ==
    Fetching /\ (FetchResponse.neterr \/ FetchResponse.status # 200 \/ ~FetchResponse.valid)

\* the command printed the list of likely causes
Suggested == "suggestions" \in DOMAIN call.out /\ call.out.suggestions

\* the command printed a result with status ERROR
ErrorResult == "result" \in DOMAIN call.out /\ call.out.result.Status = "ERROR"

\* C18 as stated: whenever a command's fetch fails with a status other than
\* 200 or with an HTML body, the command prints the suggestion and returns
\* the error
C18_FailedFetchSuggests ==
    (Fetching /\ Refused(FetchResponse)
     /\ (FetchResponse.status # 200 \/ HTMLBody(FetchResponse.raw))) =>
        /\ Suggested
        /\ call.err # ""

\* C18, amended: the suggestion is printed exactly when the fetch of get, diff
\* all or diff query fails on a 200 response whose body does not decode and
\* begins with "<"; no other failure prints it, and list and dump never do.
\* After a failed fetch diff query prints an ERROR result and returns nil,
\* every other command returns the error.
C18_SuggestionOnlyForHTMLError ==
    /\ Suggested <=>
           /\ Fetching
           /\ call.op \in {"get", "diff all", "diff query"}
           /\ Refused(FetchResponse)
           /\ FetchResponse.status = 200
           /\ HasPrefix(FetchResponse.raw, "<")
    /\ FetchFailed =>
           IF call.op = "diff query" THEN call.err = "" /\ ErrorResult
           ELSE call.err # ""

\* diff query met an HTML page: it printed the suggestion and an ERROR result
C18_Witness ==
    /\ call.op = "diff query"
    /\ Fetching
    /\ FetchResponse.raw = "<html>login</html>"
    /\ Suggested
    /\ ErrorResult
    /\ call.err = ""

\* the command ran with a --profile flag that names a profile of the config file
FlagNamesProfile ==
    /\ call.op \in {"list", "get", "dump", "diff all", "diff query"}
    /\ ArgParses
    /\ ReadableFile(ConfigPath(environ))
    /\ call.profile # ""
    /\ call.profile \in DOMAIN DiskConfig

FlagProfile == DiskConfig[call.profile]

\* the directory the flag's profile gives: its sql_dir when that is a
\* directory, the current directory otherwise
FlagSQLDir ==
    IF FlagProfile.SQLDir # "" /\ DirectoryOnDisk(FlagProfile.SQLDir) THEN FlagProfile.SQLDir
    ELSE "."

\* the command used the profile the flag names: it resolved that profile, sent
\* its requests to that profile's URL with that profile's key, stopped without
\* a request when the profile lacks one of the two, and wrote to or compared
\* with files of that profile's SQL directory
FlagProfileUsed ==
    /\ CurrentProfile = call.profile
    /\ \A i \in 1..Len(requests) :
           /\ HasPrefix(requests[i].url, FlagProfile.RedashURL \o "/queries")
           /\ requests[i].auth = "Key " \o FlagProfile.APIKey
    /\ (FlagProfile.RedashURL = "" \/ FlagProfile.APIKey = "") =>
           requests = <<>> /\ call.err # ""
    /\ "dir" \in DOMAIN call.out => call.out.dir = FlagSQLDir
    /\ "saved" \in DOMAIN call.out => call.out.saved = PathJoin(FlagSQLDir, "3.sql")
    /\ \A i \in 1..Len(compares) : HasPrefix(compares[i].localPath, PathJoin(FlagSQLDir, ""))

\* C19: every subcommand run with a non-empty --profile that names an existing
\* profile uses that profile's redash_url, api_key and sql_dir
C19_FlagSelectsProfile == FlagNamesProfile => FlagProfileUsed

\* what holds: get, diff all and diff query use the flag's profile
FlagSelectsProfileOfGetAndDiff ==
    (FlagNamesProfile /\ call.op \in {"get", "diff all", "diff query"}) => FlagProfileUsed

\* get ran with --profile stg and saved the query of the stg server
GetUsedFlagProfile ==
    /\ FlagNamesProfile
    /\ call.op = "get"
    /\ environ.REDRIP_PROFILE = ""
    /\ requests # <<>>
    /\ "saved" \in DOMAIN call.out

----------------------------------------------------------------------------
(* The errors a command meets under Spec.                                  *)

IsCommand == call.op \in {"list", "get", "dump", "diff all", "diff query"}

\* the config file is there and cannot be read
ConfigLoadFailed ==
    /\ ConfigPath(environ) \in DOMAIN disk
    /\ ~ReadableFile(ConfigPath(environ))

\* the config file was read and the profile the command resolved lacks a
\* required field
RequiredFieldMissing ==
    /\ ArgParses
    /\ ReadableFile(ConfigPath(environ))
    /\ (CommandProfile.RedashURL = "" \/ CommandProfile.APIKey = "")

\* the SQL directory of the profile the command resolved
CommandSQLDir ==
    IF CommandProfile.SQLDir # "" /\ DirectoryOnDisk(CommandProfile.SQLDir)
        THEN CommandProfile.SQLDir
    ELSE "."

\* get or dump fetched query 3 and its file cannot be written: the path is a
\* directory
WriteBlocked ==
    /\ call.op \in {"get", "dump"}
    /\ Fetching
    /\ ~FetchFailed
    /\ \E i \in 1..Len(server.queries) : server.queries[i].ID = 3
    /\ PathJoin(CommandSQLDir, "3.sql") \in DOMAIN disk
    /\ disk[PathJoin(CommandSQLDir, "3.sql")].kind = "dir"

\* C20 as stated: a command that meets a config load failure, a missing
\* required field, a remote fetch failure or a local write failure returns a
\* non-nil error, so one that returns nil met none of them
C20_ErrorsAbortWithNonNil ==
    (IsCommand /\ (ConfigLoadFailed \/ RequiredFieldMissing \/ FetchFailed \/ WriteBlocked)) =>
        call.err # ""

\* C20, amended: a command that meets a config load failure, a missing
\* required field or a local write failure returns a non-nil error and prints
\* no result, the first two before any request; so does list, get, dump and
\* diff all after a failed fetch, while diff query then prints a result with
\* status ERROR and returns nil
C20_ErrorsAbortExceptDiffQueryFetch ==
    IsCommand =>
        /\ (ConfigLoadFailed \/ RequiredFieldMissing) =>
               call.err # "" /\ ~call.out.printed /\ requests = <<>>
        /\ WriteBlocked => call.err # "" /\ ~call.out.printed
        /\ FetchFailed =>
               IF call.op = "diff query" THEN call.err = "" /\ ErrorResult
               ELSE call.err # "" /\ ~call.out.printed

\* dump fetched the queries and failed to write 3.sql
C20_Witness ==
    /\ call.op = "dump"
    /\ WriteBlocked
    /\ call.err # ""

----------------------------------------------------------------------------
(* config list: what it prints under SpecConfigList.                       *)

\* config list ran on a config file that was there and could be read
ConfigListed ==
    /\ call.op = "config list"
    /\ call.loaded
    /\ call.err = ""
    /\ ReadableFile(ConfigPath(environ))

\* the profiles of the config with every key that is set replaced by k
Rekeyed(config, k) ==
    [n \in DOMAIN config |->
        IF config[n].APIKey = "" THEN config[n] ELSE [config[n] EXCEPT !.APIKey = k[n]]]

\* the lines of the output that show an api_key
KeyLines == {i \in 1..Len(call.out.lines) : HasPrefix(call.out.lines[i], "  api_key = ")}

\* C21: the output of config list holds no api_key of the config: every
\* api_key line reads [REDACTED] or [NOT SET], no line contains a key, and the
\* same command on a config whose set keys are replaced by others prints the
\* same lines
C21_ConfigListHidesKeys ==
    ConfigListed =>
        /\ \A i \in KeyLines :
               call.out.lines[i] \in {"  api_key = [REDACTED]", "  api_key = [NOT SET]"}
        /\ \A i \in 1..Len(call.out.lines), k \in ListKeys \ {""} :
               ~Contains(call.out.lines[i], k)
        /\ \A k \in [DOMAIN DiskConfig -> ListKeys \ {""}] :
               ConfigList(Put(disk, ConfigPath(environ),
                              FileNode(ConfigText(Rekeyed(DiskConfig, k)))),
                          environ, call.profile, call.order).lines
                   = call.out.lines
        /\ (call.profile \in DOMAIN DiskConfig) =>
               /\ Cardinality(KeyLines) = 1
               /\ \A i \in KeyLines :
                      call.out.lines[i] = "  api_key = [REDACTED]"
                          <=> DiskConfig[call.profile].APIKey # ""

\* config list showed three profiles, with a key set and a key not set
C21_Witness ==
    /\ ConfigListed
    /\ call.profile = ""
    /\ Cardinality(KeyLines) = 3
    /\ \E i \in KeyLines : call.out.lines[i] = "  api_key = [REDACTED]"
    /\ \E i \in KeyLines : call.out.lines[i] = "  api_key = [NOT SET]"
    /\ DiskConfig["default"].APIKey = "K2"

----------------------------------------------------------------------------
(* get and dump: the files they write under SpecSave.                      *)

\* the queries of the server with this id
Held(id) == {i \in 1..Len(server.queries) : server.queries[i].ID = id}

\* the SQL directory of the profile that a command asking for this name
\* resolves: its sql_dir when that is a directory, the current directory
\* otherwise
SQLDirFor(name) ==
    LET Dir(pc) == IF pc.SQLDir # "" /\ DirectoryOnDisk(pc.SQLDir) THEN pc.SQLDir ELSE "."
    IN  Dir(DiskConfig[Resolved(DiskConfig, name)])

\* the get that comes next sends no request or has its fetch fail
GetFetchesNothing ==
    \/ requests' = <<>>
    \/ GetResponse(server, 1, 3).status # 200

\* the get that comes next changed the disk at dir's 3.sql only, which now
\* holds the text of the server's query 3 as it is
SavedInto(dir) ==
    \E i \in Held(3) :
        disk' = Put(disk, EntryPath(dir, "3.sql"), FileNode(server.queries[i].Query))

\* C22: a successful get of query 3, asked for as 3 or as +3, leaves the disk
\* as it was but for the file 3.sql of the resolved SQL directory, whose
\* content is the remote text as it is; a get whose fetch fails, or that sends
\* no request, leaves the disk as it was
C22_GetWritesOneFile ==
    [][call'.op = "get" =>
          /\ call'.err = "" =>
                 /\ call'.arg \in {"3", "+3"}
                 /\ SavedInto(SQLDirFor(call'.profile))
          /\ GetFetchesNothing => (call'.err # "" /\ disk' = disk)]_vars

\* get +3 saved the text of query 3, white space included, in /sql
C22_Witness ==
    /\ call.op = "get"
    /\ call.arg = "+3"
    /\ call.profile = ""
    /\ call.err = ""
    /\ "/sql/3.sql" \in DOMAIN disk
    /\ disk["/sql/3.sql"] = FileNode(" a\n")

\* the file of the query with a one-digit id
SqlName(id) == SubSeq("0123456789", id + 1, id + 1) \o ".sql"

\* the files a dump into dir is to leave: one per query of the server, and
\* the snapshot
DumpPaths(dir) ==
    {EntryPath(dir, SqlName(server.queries[i].ID)) : i \in 1..Len(server.queries)}
    \cup {EntryPath(dir, DumpTimestamp \o ".json")}

\* the listing of the dump that comes next fails: one of its requests is the
\* one the server refuses
ListingFails == server.fault.at \in 1..Len(requests')

\* the dump that comes next left in dir a file for every query of the server,
\* with its text as it is, and the snapshot, and changed nothing else
DumpedInto(dir) ==
    /\ call'.out.dir = dir
    /\ \A i \in 1..Len(server.queries) :
           /\ EntryPath(dir, SqlName(server.queries[i].ID)) \in DOMAIN disk'
           /\ disk'[EntryPath(dir, SqlName(server.queries[i].ID))]
                  = FileNode(server.queries[i].Query)
    /\ EntryPath(dir, DumpTimestamp \o ".json") \in DOMAIN disk'
    /\ disk'[EntryPath(dir, DumpTimestamp \o ".json")].kind = "file"
    /\ \A i \in 1..Len(server.queries) :
           Contains(disk'[EntryPath(dir, DumpTimestamp \o ".json")].content,
                    "\"id\": " \o SubSeq(SqlName(server.queries[i].ID), 1, 1) \o ",")
    /\ DOMAIN disk' = DOMAIN disk \cup DumpPaths(dir)
    /\ \A path \in DOMAIN disk \ DumpPaths(dir) : disk'[path] = disk[path]

\* C23: a successful dump leaves, in the SQL directory it resolved, a file
\* <id>.sql with the text as it is for every query of the listing and a
\* snapshot named by the time, and changes nothing else; a dump whose listing
\* fails leaves the disk as it was
C23_DumpWritesEveryQuery ==
    [][call'.op = "dump" =>
          /\ call'.err = "" => DumpedInto(SQLDirFor(""))
          /\ ListingFails => (call'.err # "" /\ disk' = disk)]_vars

\* a dump of two queries fetched in two pages left both files and the snapshot
C23_Witness ==
    /\ call.op = "dump"
    /\ call.err = ""
    /\ server.pageLen = 1
    /\ Len(requests) = 2
    /\ DumpPaths("/sql") \subseteq DOMAIN disk
    /\ disk["/sql/3.sql"] = FileNode(" a\n")
    /\ disk["/sql/7.sql"] = FileNode("")

\* the requests of the last command are those of a client of profile pc: each
\* carries pc's key, a listing asks pc's URL for pages 1, 2, ... and get and
\* diff query ask it for query 3
RequestsOf(pc) ==
    \A i \in 1..Len(requests) :
        /\ requests[i].auth = "Key " \o pc.APIKey
        /\ requests[i].url =
               pc.RedashURL
               \o (IF call.op \in {"get", "diff query"} THEN "/queries/3"
                   ELSE "/queries?page=" \o SubSeq("123456789", i, i) \o "&page_size=100")

\* C24: every request of ListQueries, page after page, and of GetQuery carries
\* the header Authorization: Key <api_key> of the profile the client was
\* created for and goes to <redash_url>/queries or <redash_url>/queries/<id>
\* of that profile
C24_RequestsCarryProfileKey ==
    requests # <<>> => RequestsOf(CommandProfile)

\* a listing of two pages by a client of the stg profile
C24_Witness ==
    /\ call.op = "diff all"
    /\ call.profile = "stg"
    /\ Len(requests) = 2
    /\ requests[2] = [url |-> "http://s/api/queries?page=2&page_size=100", auth |-> "Key S"]

----------------------------------------------------------------------------
(* SpecReads: list, get, dump, diff all and diff query run one call at a   *)
(* time (the client's creation, the remote fetch, the SQL directory's      *)
(* resolution, the work on the files), while another process may rewrite   *)
(* the config file between two calls. call.log records the reads of the    *)
(* config file, the requests and the operations on the SQL files in the    *)
(* order they happen, call.reads the contents each read found.             *)

ReadOps == {"list", "get", "dump", "diff all", "diff query"}

\* the calls of each RunE in the order the code makes them
ListSteps == <<"create", "fetch", "work">>

GetSteps == <<"create", "fetch", "locate", "work">>

DumpSteps == <<"create", "fetch", "locate", "work">>

DiffAllSteps == <<"create", "locate", "fetch", "work">>

DiffQuerySteps == <<"create", "locate", "fetch", "work">>

\* the commands with the SQL directory resolved before anything is fetched:
\* the mutant of Steps
StepsLocateFirst(op) ==
    IF op = "list" THEN ListSteps ELSE <<"create", "locate", "fetch", "work">>

Steps(op) ==
    IF op = "list" THEN ListSteps
    ELSE IF op = "get" THEN GetSteps
    ELSE IF op = "dump" THEN DumpSteps
    ELSE IF op = "diff all" THEN DiffAllSteps
    ELSE DiffQuerySteps

\* the profile name a command passes on: list and dump pass none
StepFlag == IF call.op \in {"list", "dump"} THEN "" ELSE call.profile

\* what a read of the config file found, once LoadConfig has returned
ConfigRead(d, env) ==
    IF ReadOK(d, ConfigPath(env)) THEN <<d[ConfigPath(env)].content>> ELSE <<>>

ReadEvents(d, env) == [i \in 1..Len(ConfigRead(d, env)) |-> "read"]

RequestEvents(sent) == [i \in 1..Len(sent) |-> "request"]

\* the config file as the other process leaves it: stg moved to another
\* server and to the default's directory, or removed
EditTexts ==
    {"[default]\nredash_url = http://r/api\napi_key = K\nsql_dir = /sql\n\n"
     \o "[profile stg]\nredash_url = http://t/api\napi_key = T\nsql_dir = /sql\n",
     "[default]\nredash_url = http://r/api\napi_key = K\nsql_dir = /sql\n"}

ReadDisks ==
    LET dirs == Put(Put(BaseDisk, "/sql", OtherNode("dir")), "/stg", OtherNode("dir"))
        files == Put(Put(dirs, "/sql/3.sql", FileNode("a")), "/stg/3.sql", FileNode("b"))
    IN  {files, Put(files, DiffConfigPath, FileNode(TwoProfiles))}

ReadServers ==
    {PlainServer(<<>>), PlainServer(<<Query(3, "q3", "a")>>),
     [PlainServer(SaveQueries) EXCEPT !.pageLen = 1]}

ReadArgs(op) == IF op \in {"get", "diff query"} THEN {"3", "abc"} ELSE {""}

InitReads ==
    /\ disk \in ReadDisks
    /\ environ = HomeEnv("")
    /\ server \in ReadServers
    /\ CurrentProfile = ""
    /\ call = NoCall
    /\ compares = <<>>
    /\ requests = <<>>

Running(step) ==
    /\ call.op \in ReadOps
    /\ call.pc <= Len(Steps(call.op))
    /\ Steps(call.op)[call.pc] = step

\* the call's position once it has returned err, or returned early with nil
Stopped == Len(Steps(call.op)) + 1

\* the command line is entered
Invoke ==
    /\ call.op = "none"
    /\ \E op \in ReadOps, profile \in CommandProfiles :
           \E arg \in ReadArgs(op) :
               call' = [op |-> op, profile |-> profile, arg |-> arg, pc |-> 1, err |-> "",
                        out |-> NoOutput, log |-> <<>>, reads |-> <<>>, client |-> NoClient,
                        dir |-> "", id |-> 0, queries |-> <<>>, start |-> disk]
    /\ UNCHANGED <<disk, environ, server, CurrentProfile, compares, requests>>

\* strconv.Atoi of the argument in get and diff query, then
\* NewClientWithProfile(profile), or NewClient() in list and dump
CreateClient ==
    /\ Running("create")
    /\ LET Created(id, n) ==
               /\ call' = [call EXCEPT
                      !.pc = IF n.err # "" THEN Stopped ELSE @ + 1,
                      !.err = IF n.err # ""
                                  THEN "failed to initialize Redash client: " \o n.err
                              ELSE "",
                      !.id = id.val,
                      !.client = n.client,
                      !.log = @ \o ReadEvents(n.disk, environ),
                      !.reads = @ \o ConfigRead(n.disk, environ)]
               /\ disk' = n.disk
               /\ CurrentProfile' = n.current
           Parsed(id) ==
               IF call.op \in {"get", "diff query"} /\ ~id.ok
                   THEN /\ call' = [call EXCEPT
                               !.pc = Stopped,
                               !.err = IF call.op = "get"
                                           THEN "strconv.Atoi: parsing \"" \o call.arg
                                                \o "\": invalid syntax"
                                       ELSE "invalid query ID: " \o call.arg]
                        /\ UNCHANGED <<disk, CurrentProfile>>
               ELSE Created(id, NewClientWithProfile(disk, environ, "", StepFlag))
       IN  Parsed(Atoi(call.arg))
    /\ UNCHANGED <<environ, server, compares, requests>>

\* GetProfileSQLDir(profile), or GetSQLDir() in dump; diff all then requires
\* the directory to exist
Locate ==
    /\ Running("locate")
    /\ LET Located(g) ==
               LET err == IF g.err # "" THEN "failed to get SQL directory: " \o g.err
                          ELSE IF /\ call.op = "diff all"
                                  /\ (~Exists(g.disk, g.dir) \/ ~IsDirectory(g.disk, g.dir))
                              THEN "SQL directory does not exist: " \o g.dir
                          ELSE ""
               IN  /\ call' = [call EXCEPT
                          !.pc = IF err # "" THEN Stopped ELSE @ + 1,
                          !.err = err,
                          !.dir = g.dir,
                          !.log = @ \o ReadEvents(g.disk, environ),
                          !.reads = @ \o ConfigRead(g.disk, environ)]
                   /\ disk' = g.disk
                   /\ CurrentProfile' = g.current
       IN  Located(GetProfileSQLDir(disk, environ, CurrentProfile, StepFlag))
    /\ UNCHANGED <<environ, server, compares, requests>>

\* client.ListQueries() in list, dump and diff all, client.GetQuery(id) in
\* get and diff query; diff query first looks for the local file, and prints
\* an ERROR result and returns nil when the file is missing or the fetch fails
Fetch ==
    /\ Running("fetch")
    /\ LET localPath == PathJoin(call.dir, Itoa(call.id) \o ".sql")
           Failed(message) ==
               [printed |-> TRUE,
                result |-> [NewResult(call.id, localPath) EXCEPT
                                !.Status = "ERROR", !.ErrorMessage = message]]
           Listed(l) ==
               /\ call' = [call EXCEPT
                      !.pc = IF l.err # "" THEN Stopped ELSE @ + 1,
                      !.err = l.err,
                      !.queries = l.queries,
                      !.log = @ \o RequestEvents(l.requests)]
               /\ requests' = l.requests
           Found(q) ==
               /\ call' = [call EXCEPT
                      !.pc = IF q.err # "" THEN Stopped ELSE @ + 1,
                      !.err = IF call.op = "get" THEN q.err ELSE "",
                      !.out = IF call.op = "diff query" /\ q.err # ""
                                  THEN Failed("failed to get query from Redash: " \o q.err)
                              ELSE @,
                      !.queries = q.found,
                      !.log = @ \o (IF call.op = "diff query" THEN <<"file">> ELSE <<>>)
                                \o RequestEvents(q.requests)]
               /\ requests' = q.requests
       IN  IF call.op \in {"list", "dump", "diff all"}
               THEN Listed(ListQueries(call.client, server, <<>>))
           ELSE IF call.op = "diff query" /\ ~Exists(disk, localPath)
               THEN /\ call' = [call EXCEPT
                           !.pc = Stopped,
                           !.out = Failed("local SQL file does not exist: " \o localPath),
                           !.log = @ \o <<"file">>]
                    /\ UNCHANGED requests
           ELSE Found(GetQuery(call.client, server, <<>>, call.id))
    /\ UNCHANGED <<disk, environ, server, CurrentProfile, compares>>

\* what is done with the queries: list prints them, get writes <id>.sql,
\* dump writes the JSON file and every <id>.sql, diff all and diff query
\* compare the local files
Work ==
    /\ Running("work")
    /\ LET Finished(err, d, cmps, events) ==
               /\ call' = [call EXCEPT !.pc = Stopped, !.err = err,
                                       !.out = [printed |-> err = ""],
                                       !.log = @ \o events]
               /\ disk' = d
               /\ compares' = cmps
           Written(w, prefix) ==
               Finished(IF w.err # "" THEN prefix \o w.err ELSE "", w.disk, <<>>, <<"file">>)
           Dumped(jsonFilePath, j) ==
               IF j.err # ""
                   THEN Written(j, "failed to write JSON file " \o jsonFilePath \o ": ")
               ELSE Written(DumpLoop(j.disk, call.dir, call.queries), "")
           Named(jsonFilePath) ==
               Dumped(jsonFilePath,
                      WriteFile(disk, jsonFilePath, MarshalQueries(call.queries)))
           Diffed(acc) ==
               Finished("", disk, acc.compares, [i \in 1..Len(acc.compares) |-> "file"])
           Compared(localPath, cmp) ==
               Finished("", disk,
                        <<[queryID |-> call.id, redashQuery |-> call.queries,
                           localPath |-> localPath, result |-> cmp.result,
                           err |-> cmp.err]>>,
                        <<"file">>)
           Local(localPath) ==
               Compared(localPath,
                        CompareQueryWithLocal(disk, call.id, call.queries, localPath))
       IN  IF call.op = "list" THEN Finished("", disk, <<>>, <<>>)
           ELSE IF call.op = "get"
               THEN Written(WriteFile(disk,
                                      PathJoin(call.dir, Itoa(call.queries[1].ID) \o ".sql"),
                                      call.queries[1].Query),
                            "failed to write file: ")
           ELSE IF call.op = "dump" THEN Named(PathJoin(call.dir, DumpTimestamp \o ".json"))
           ELSE IF call.op = "diff all"
               THEN Diffed(DiffAllLoop(disk, call.queries, call.dir,
                                       [summary |-> NewSummary(CurrentProfile, call.dir),
                                        compares |-> <<>>],
                                       ReadDir(disk, call.dir)))
           ELSE Local(PathJoin(call.dir, Itoa(call.id) \o ".sql"))
    /\ UNCHANGED <<environ, server, CurrentProfile, requests>>

\* another process rewrites the config file while the command runs
EditConfig ==
    /\ call.op \in ReadOps
    /\ call.pc <= Len(Steps(call.op))
    /\ \A i \in 1..Len(call.log) : call.log[i] # "edit"
    /\ \E text \in EditTexts :
           disk' = Put(disk, ConfigPath(environ), FileNode(text))
    /\ call' = [call EXCEPT !.log = Append(@, "edit")]
    /\ UNCHANGED <<environ, server, CurrentProfile, compares, requests>>

NextReads == Invoke \/ CreateClient \/ Locate \/ Fetch \/ Work \/ EditConfig

SpecReads == InitReads /\ [][NextReads]_vars

\* the positions of an event in the log
Positions(event) == {i \in 1..Len(call.log) : call.log[i] = event}

ReadsBefore(i) == Cardinality({r \in Positions("read") : r < i})

\* the whole command run on the disk it started from
WholeRun ==
    IF call.op = "list" THEN List(call.start, environ, server)
    ELSE IF call.op = "get" THEN Get(call.start, environ, server, call.profile, call.arg)
    ELSE IF call.op = "dump" THEN Dump(call.start, environ, server, DumpTimestamp)
    ELSE IF call.op = "diff all" THEN DiffAll(call.start, environ, server, call.profile)
    ELSE DiffQuery(call.start, environ, server, call.profile, call.arg)

SameOutcome(o) ==
    /\ call.err = o.err
    /\ disk = o.disk
    /\ CurrentProfile = o.current
    /\ requests = o.requests
    /\ compares = o.compares

\* a command run call by call with the config file left alone ends as the
\* command run as a whole does
StepsAgreeWithWholeRun ==
    (call.op \in ReadOps /\ call.pc = Stopped /\ Positions("edit") = {})
        => SameOutcome(WholeRun)

\* C25 as stated: the config file is read once in an invocation, every read
\* of it comes before the first request and the first operation on an SQL
\* file, and so two reads, if there are two, find the same contents
C25_ConfigReadOnceBeforeWork ==
    call.op \in ReadOps =>
        /\ Cardinality(Positions("read")) <= 1
        /\ \A r \in Positions("read"), w \in Positions("request") \cup Positions("file") :
               r < w
        /\ \A i, j \in 1..Len(call.reads) : call.reads[i] = call.reads[j]

\* C25, amended: list reads the config file once; get, dump, diff all and
\* diff query read it twice, once for the client and once for the SQL
\* directory. Both reads come before every operation on an SQL file; in diff
\* all and diff query both come before the first request, in get and dump
\* the second comes after the last request. The two reads find the same
\* contents when the file was not rewritten between them.
C25_ConfigReadForClientAndDirectory ==
    call.op \in ReadOps =>
        /\ Cardinality(Positions("read")) <= (IF call.op = "list" THEN 1 ELSE 2)
        /\ \A f \in Positions("file") : ReadsBefore(f) = 2
        /\ \A q \in Positions("request") :
               ReadsBefore(q) = (IF call.op \in {"diff all", "diff query"} THEN 2 ELSE 1)
        /\ (call.op \in {"get", "dump"} /\ call.pc = Stopped /\ call.err = "")
               => Cardinality(Positions("read")) = 2
        /\ \A i, j \in Positions("read") :
               (i < j /\ \A e \in Positions("edit") : e < i \/ j < e)
                   => call.reads[1] = call.reads[2]

\* get --profile stg fetched query 3 from stg's server as the first read
\* found it, the file was rewritten, and the text was saved in the directory
\* the second read found for stg
C25_Witness ==
    /\ call.op = "get"
    /\ call.profile = "stg"
    /\ call.log = <<"read", "request", "edit", "read", "file">>
    /\ call.reads[1] # call.reads[2]
    /\ requests = <<[url |-> "http://s/api/queries/3", auth |-> "Key S"]>>
    /\ call.dir = "/sql"
    /\ disk["/sql/3.sql"] = FileNode("a")
    /\ call.err = ""

----------------------------------------------------------------------------
(* SpecPages: ListQueries run one iteration of its loop at a time against  *)
(* a server that holds N queries, reports N and serves pages of 100, for   *)
(* every N up to MaxTotal. call holds the loop's page and allQueries.      *)

MaxTotal == 250     \* the most queries the server holds under SpecPages

FullPageServers ==
    {[queries |-> [i \in 1..n |-> Query(i, "q", "s")], pageLen |-> PageSize, count |-> n,
      fault |-> NoFault] : n \in 0..MaxTotal}

\* an iteration that leaves the loop only on an empty page: the mutant of
\* ListIteration
ListIterationUntilEmpty(c, srv, page, allQueries, sent) ==
    LET req == Request(c, "/queries?page=" \o Itoa(page) \o "&page_size=" \o Itoa(PageSize))
        resp == ListResponse(srv, Len(sent) + 1, page, PageSize)
        e == ResponseErr(resp)
        all == allQueries \o resp.results
    IN  IF e # ""
            THEN [done |-> TRUE, queries |-> <<>>, err |-> e, page |-> page,
                  requests |-> Append(sent, req)]
        ELSE IF Len(resp.results) = 0
            THEN [done |-> TRUE, queries |-> all, err |-> "", page |-> page,
                  requests |-> Append(sent, req)]
        ELSE [done |-> FALSE, queries |-> all, err |-> "", page |-> page + 1,
              requests |-> Append(sent, req)]

\* one iteration of the loop of ListQueries: the request for page, the
\* response's errors, the append, and the test that ends the loop
ListIteration(c, srv, page, allQueries, sent) ==
    LET req == Request(c, "/queries?page=" \o Itoa(page) \o "&page_size=" \o Itoa(PageSize))
        resp == ListResponse(srv, Len(sent) + 1, page, PageSize)
        e == ResponseErr(resp)
        all == allQueries \o resp.results
    IN  IF e # ""
            THEN [done |-> TRUE, queries |-> <<>>, err |-> e, page |-> page,
                  requests |-> Append(sent, req)]
        ELSE IF Len(all) >= resp.count \/ Len(resp.results) = 0
            THEN [done |-> TRUE, queries |-> all, err |-> "", page |-> page,
                  requests |-> Append(sent, req)]
        ELSE [done |-> FALSE, queries |-> all, err |-> "", page |-> page + 1,
              requests |-> Append(sent, req)]

InitPages ==
    /\ disk = BaseDisk
    /\ environ = HomeEnv("")
    /\ server \in FullPageServers
    /\ CurrentProfile = ""
    /\ call = NoCall
    /\ compares = <<>>
    /\ requests = <<>>

\* ListQueries is entered: allQueries is nil and page is 1
EnterListQueries ==
    /\ call.op = "none"
    /\ call' = [op |-> "ListQueries", err |-> "", out |-> NoOutput, done |-> FALSE,
                page |-> 1, queries |-> <<>>]
    /\ UNCHANGED <<disk, environ, server, CurrentProfile, compares, requests>>

\* the loop's body runs once
FetchPage ==
    /\ call.op = "ListQueries"
    /\ ~call.done
    /\ LET Fetched(it) ==
               /\ call' = [call EXCEPT !.done = it.done, !.err = it.err, !.page = it.page,
                                       !.queries = it.queries]
               /\ requests' = it.requests
       IN  Fetched(ListIteration(TheClient, server, call.page, call.queries, requests))
    /\ UNCHANGED <<disk, environ, server, CurrentProfile, compares>>

NextPages == EnterListQueries \/ FetchPage

SpecPages == InitPages /\ [][NextPages]_vars

\* the process runs: a call that can be entered is, and a loop that can go
\* on does
SpecPagesFair == SpecPages /\ WF_vars(EnterListQueries) /\ WF_vars(FetchPage)

\* max(1, ceil(n / 100))
PagesFor(n) == IF n = 0 THEN 1 ELSE (n + PageSize - 1) \div PageSize

Returned == call.op = "ListQueries" /\ call.done

\* the loop run iteration by iteration returns what ListQueries returns
IterationsAgreeWithListQueries ==
    LET Same(l) == call.err = l.err /\ call.queries = l.queries /\ requests = l.requests
    IN  Returned => Same(ListQueries(TheClient, server, <<>>))

\* the requests so far are those for pages 1, 2, ... in this order, none past
\* the last page, and a call that has returned has asked for every page and
\* returns the server's queries
PagesInOrder ==
    /\ \A i \in 1..Len(requests) :
           requests[i] = [url |-> "http://r/api/queries?page=" \o Itoa(i) \o "&page_size=100",
                          auth |-> "Key K"]
    /\ Len(requests) <= PagesFor(Len(server.queries))
    /\ Returned => /\ call.err = ""
                   /\ Len(requests) = PagesFor(Len(server.queries))
                   /\ call.queries = server.queries

\* C26: against a server that holds N queries, reports N and serves full
\* pages of 100, ListQueries terminates, having asked for the pages 1, 2, ...,
\* max(1, ceil(N/100)) once each and in increasing order, and returns the N
\* queries; when N is a multiple of 100 it asks for no page after the last
C26_ListQueriesTerminates == []PagesInOrder /\ <>Returned

\* 200 queries listed in two requests
C26_Witness ==
    /\ Returned
    /\ Len(server.queries) = 200
    /\ Len(requests) = 2
    /\ Len(call.queries) = 200

----------------------------------------------------------------------------
(* config list and a profile that the config does not hold.                *)

\* config list was given --profile with a name the config does not hold
AbsentFlag == ConfigListed /\ call.profile # "" /\ call.profile \notin DOMAIN DiskConfig

\* config list was given no flag and REDRIP_PROFILE names a profile the
\* config does not hold
AbsentEnv ==
    /\ ConfigListed
    /\ call.profile = ""
    /\ environ.REDRIP_PROFILE # ""
    /\ environ.REDRIP_PROFILE \notin DOMAIN DiskConfig

\* the line that shows the default profile's redash_url
DefaultURLLine ==
    "  redash_url = " \o (IF DiskConfig["default"].RedashURL # ""
                              THEN DiskConfig["default"].RedashURL ELSE "[NOT SET]")

ShowsDefault == \E i \in 1..Len(call.out.lines) : call.out.lines[i] = DefaultURLLine

ReportsAbsence ==
    \E i \in 1..Len(call.out.lines) : Contains(call.out.lines[i], "does not exist")

\* C27 as stated: config list with --profile naming a profile absent from the
\* config shows the settings of the default profile and does not report that
\* the profile does not exist
C27_AbsentFlagShowsDefault == AbsentFlag => (ShowsDefault /\ ~ReportsAbsence)

\* C27, amended: config list with --profile naming a profile absent from the
\* config prints, after the file's path, only that the profile does not
\* exist, and returns nil; with no flag and REDRIP_PROFILE naming an absent
\* profile it shows default as the active profile and reports no absence
C27_AbsentFlagIsReported ==
    /\ AbsentFlag =>
           /\ call.err = ""
           /\ call.out.lines = <<"Configuration file: " \o ConfigPath(environ), "",
                                 "Profile '" \o call.profile \o "' does not exist">>
    /\ AbsentEnv =>
           /\ call.out.lines[3] = "Active profile: default"
           /\ call.out.lines[4] = DefaultURLLine
           /\ ~ReportsAbsence

\* config list --profile nosuch on a config that holds default and stg
C27_Witness ==
    /\ AbsentFlag
    /\ call.profile = "nosuch"
    /\ DOMAIN DiskConfig = {"default", "stg"}
    /\ call.out.lines[3] = "Profile 'nosuch' does not exist"
    /\ Len(call.out.lines) = 3

----------------------------------------------------------------------------
(* diff all: the paths and the ids of its results.                         *)

DigitValue(c) == CHOOSE v \in 0..9 : SubSeq("0123456789", v + 1, v + 1) = c

\* the number a string of decimal digits writes
RECURSIVE DecimalValue(_)
DecimalValue(s) ==
    IF Len(s) = 0 THEN 0
    ELSE DecimalValue(SubSeq(s, 1, Len(s) - 1)) * 10 + DigitValue(SubSeq(s, Len(s), Len(s)))

\* the integer that the name <integer>.sql writes; no name of DirNames has
\* the sign -
StemValue(name) ==
    IF SubSeq(name, 1, 1) = "+" THEN DecimalValue(SubSeq(name, 2, Len(name) - 4))
    ELSE DecimalValue(SubSeq(name, 1, Len(name) - 4))

SummaryResults == call.out.summary.Results

\* the path <sqlDir>/<queryID>.sql of the i-th result
CanonicalPath(i) ==
    EntryPath(call.out.summary.SQLDirectory, Itoa(SummaryResults[i].QueryID) \o ".sql")

\* C28 as stated: every result's localPath is <sqlDir>/<queryID>.sql and no
\* two results have the same queryID
C28_LocalPathNamesQueryID ==
    Printed =>
        /\ \A i \in 1..Len(SummaryResults) : SummaryResults[i].LocalPath = CanonicalPath(i)
        /\ \A i, j \in 1..Len(SummaryResults) :
               i # j => SummaryResults[i].QueryID # SummaryResults[j].QueryID

\* C28, amended: every result's localPath is <sqlDir>/<name> for an entry
\* <name> of the directory whose stem is an integer, and its queryID is that
\* integer; no two results have the same localPath; the results whose
\* localPath is <sqlDir>/<queryID>.sql have different queryIDs
C28_LocalPathIsEntryPath ==
    Printed =>
        /\ \A i \in 1..Len(SummaryResults) :
               \E name \in DirNames :
                   /\ SummaryResults[i].LocalPath
                      = EntryPath(call.out.summary.SQLDirectory, name)
                   /\ SummaryResults[i].LocalPath \in DOMAIN disk
                   /\ IsIntegerSql(name)
                   /\ SummaryResults[i].QueryID = StemValue(name)
        /\ \A i, j \in 1..Len(SummaryResults) :
               i # j => SummaryResults[i].LocalPath # SummaryResults[j].LocalPath
        /\ \A i, j \in 1..Len(SummaryResults) :
               (/\ i # j
                /\ SummaryResults[i].LocalPath = CanonicalPath(i)
                /\ SummaryResults[j].LocalPath = CanonicalPath(j))
                   => SummaryResults[i].QueryID # SummaryResults[j].QueryID

\* +7.sql and 007.sql are files of /sql: two results with queryID 7, each
\* under its own path
C28_Witness ==
    /\ Printed
    /\ Len(SummaryResults) = 2
    /\ SummaryResults[1].LocalPath = "/sql/+7.sql"
    /\ SummaryResults[2].LocalPath = "/sql/007.sql"
    /\ SummaryResults[1].QueryID = 7
    /\ SummaryResults[2].QueryID = 7
    /\ disk["/sql/007.sql"].kind = "file"

----------------------------------------------------------------------------
(* diff query: the status it prints under SpecSave.                        *)

\* diff query ran with an argument that is an integer and printed a result
DiffQueryPrinted == call.op = "diff query" /\ call.err = "" /\ call.out.printed

\* the local file diff query was asked about, in the directory of its profile
LocalSql(dir) == EntryPath(dir, "3.sql")

LookupFailed == requests # <<>> /\ ResponseErr(GetResponse(server, 1, 3)) # ""

DiffQueryStatus(localPath) ==
    /\ call.out.result.Status \in {"MATCH", "DIFFERENT", "ERROR"}
    /\ call.out.result.LocalPath = localPath
    /\ LookupFailed =>
           /\ call.out.result.Status = "ERROR"
           /\ HasPrefix(call.out.result.ErrorMessage, "failed to get query from Redash: ")
    /\ ~Exists(disk, localPath) =>
           /\ call.out.result.Status = "ERROR"
           /\ requests = <<>>

\* C29: diff query never prints MISSING_IN_REDASH: its status is MATCH,
\* DIFFERENT or ERROR; a remote lookup that fails, the query not being there
\* included, gives ERROR; and when the local file does not exist the status
\* is ERROR and no request was sent
C29_DiffQueryNeverMissing ==
    /\ (call.op = "diff query" /\ call.arg \in {"3", "+3"}) => DiffQueryPrinted
    /\ DiffQueryPrinted => DiffQueryStatus(LocalSql(SQLDirFor(call.profile)))

\* the server holds no query 3: one request, answered 404, and status ERROR
C29_Witness ==
    /\ DiffQueryPrinted
    /\ server.queries = <<>>
    /\ Len(requests) = 1
    /\ call.out.result.Status = "ERROR"
    /\ call.out.result.LocalPath = "/sql/3.sql"
    /\ disk["/sql/3.sql"] = FileNode("a")

----------------------------------------------------------------------------
(* dump followed by diff all, under SpecSave.                              *)

\* the step is a diff all that follows a dump that succeeded, both run with
\* this value of --profile
DiffAllAfterDump(flag) ==
    /\ call.op = "dump"
    /\ call.err = ""
    /\ call.profile = flag
    /\ call'.op = "diff all"
    /\ call'.profile = flag

\* the diff all of the step printed MATCH for the file the dump wrote for
\* every query of the server
DumpedFilesMatch ==
    /\ call'.err = ""
    /\ \A i \in 1..Len(server.queries) :
           \E r \in 1..Len(call'.out.summary.Results) :
               /\ call'.out.summary.Results[r].LocalPath
                  = EntryPath(call.out.dir, SqlName(server.queries[i].ID))
               /\ call'.out.summary.Results[r].Status = "MATCH"

RoundTrip(flags) == (\E flag \in flags : DiffAllAfterDump(flag)) => DumpedFilesMatch

\* C30: a diff all that follows a successful dump, run with the same flags
\* and environment against the same server, reports MATCH for every <id>.sql
\* the dump wrote, whatever white space the texts begin and end with
C30_DumpThenDiffAllMatches == [][RoundTrip(CommandProfiles)]_vars

\* the round trip of the commands run without --profile
RoundTripWithoutFlag == [][RoundTrip({""})]_vars

\* diff all printed MATCH for 3.sql and 7.sql, which hold " a\n" and ""
RoundTripMatched ==
    /\ call.op = "diff all"
    /\ call.profile = ""
    /\ call.err = ""
    /\ server.queries = SaveQueries
    /\ "/sql/" \o DumpTimestamp \o ".json" \in DOMAIN disk
    /\ call.out.summary.Matches = 2
    /\ disk["/sql/3.sql"] = FileNode(" a\n")
    /\ disk["/sql/7.sql"] = FileNode("")

====
